---- MODULE Spec2Model ----
(***************************************************************************)
(* Ad Mirror detection engine: container detection, field extraction,      *)
(* validation and scoring, and the static config validator.                *)
(*                                                                         *)
(* Conventions of the model                                                *)
(*   - A document is a sequence of element records in document (pre-)order.*)
(*     Element 1 is document.body; parent = 0 marks the top.               *)
(*   - Text is a sequence of whitespace-separated words; textContent of an *)
(*     element is the words of its subtree in document order.              *)
(*   - A selector is a string.  It matches an element when it equals the   *)
(*     element's class or its tag name; the strings of InvalidSelectors    *)
(*     make the DOM query functions throw a SyntaxError; "" is "not set".  *)
(*   - Scores, weights and thresholds are exact rationals: a rule's score  *)
(*     and minConfidence are integers in hundredths, a match score is in   *)
(*     ten-thousandths (rule.score * labelConfidence), and computed        *)
(*     thresholds and confidences are pairs <<numerator, denominator>>.    *)
(*   - A function of the source that can throw returns a record with a     *)
(*     field "thrown".                                                     *)
(*   - Date.now() stamps (matchedAt, detectedAt) are left out of the       *)
(*     records: they differ between any two calls by construction.         *)
(***************************************************************************)
EXTENDS Integers, Sequences, FiniteSets, TLC

VARIABLES
    doc,        \* the live document (the tree the engine inspects)
    config,     \* the loaded PlatformSelectorConfig (RuleSet)
    seen,       \* the host's seenContainers set, shared between its passes
    metrics,    \* SelectorMetricsCollector.metrics: ruleId -> metric
    clock,      \* Date.now(), a logical clock
    passes,     \* number of detectAds calls so far
    findLog,    \* the results of the last two findAdContainers calls
    passLog,    \* the last two detectAds calls: arguments and outcome
    extraction, \* the last extractFields call: arguments and result
    verdict,    \* the result of validateConfig on config, once it ran
    scored,     \* the last validateAdCandidate call: arguments and result
    collector,  \* the metrics collector's storage, and the record calls made
    host,       \* the content script and its plugin: observer, timer, lifecycle
    debug,      \* the last generateDebugInfo call: its node and result
    router      \* the background service worker: dedup cache, timers, offscreen

vars == <<doc, config, seen, metrics, clock, passes, findLog, passLog, extraction, verdict,
          scored, collector, host, debug, router>>

----------------------------------------------------------------------------
(* Small helpers                                                           *)

Range(s) == {s[i] : i \in 1..Len(s)}

SetMin(S) == CHOOSE x \in S : \A y \in S : x <= y

\* Rationals as <<n, d>> with d > 0.
RLeq(a, b) == a[1] * b[2] <= b[1] * a[2]
RLess(a, b) == a[1] * b[2] < b[1] * a[2]
RMax(a, b) == IF RLeq(a, b) THEN b ELSE a
RMin(a, b) == IF RLeq(a, b) THEN a ELSE b
RAdd(a, b) == <<a[1] * b[2] + b[1] * a[2], a[2] * b[2]>>

\* The value used for "undefined" optional numbers of a config.
Undefined == 0 - 1

----------------------------------------------------------------------------
(* Words                                                                   *)

\* String.prototype.toLowerCase on a word (also the 'i' flag of the regexes).
Lower(w) ==
    CASE w = "Promoted" -> "promoted"
      [] w = "Acme" -> "acme"
      [] w = "Unpromoted" -> "unpromoted"
      [] OTHER -> w

\* Proper substrings among the words of the model (case-insensitively).
SubstringPairs == {<<"unpromoted", "promoted">>}

\* /\bLABEL\b/i on one word.
WordMatch(w, label) == Lower(w) = Lower(label)

\* /LABEL/i on one word, and String.prototype.includes up to case.
TokContains(w, part) ==
    \/ Lower(w) = Lower(part)
    \/ <<Lower(w), Lower(part)>> \in SubstringPairs

\* String.prototype.includes: case-sensitive.
Includes(w, part) ==
    \/ w = part
    \/ (w = Lower(w) /\ part = Lower(part) /\ <<w, part>> \in SubstringPairs)

\* Number of characters of a word.
WordLen(w) ==
    CASE w = "Promoted" -> 8
      [] w = "promoted" -> 8
      [] w = "Unpromoted" -> 10
      [] w = "Acme" -> 4
      [] w = "acme" -> 4
      [] w = "Bob" -> 3
      [] w = "7" -> 1
      [] OTHER -> 2

RECURSIVE StrLen(_)
\* String.prototype.length of a trimmed text of single-spaced words.
StrLen(text) ==
    IF text = <<>> THEN 0
    ELSE IF Len(text) = 1 THEN WordLen(text[1])
    ELSE WordLen(text[1]) + 1 + StrLen(Tail(text))

----------------------------------------------------------------------------
(* Tree adapter: the DOM queries the engine uses                           *)

Nodes(d) == 1..Len(d)
NodeSeq(d) == [i \in 1..Len(d) |-> i]

RECURSIVE IsAncestorOrSelf(_, _, _)
IsAncestorOrSelf(d, a, n) ==
    \/ n = a
    \/ (n # 0 /\ d[n].parent # 0 /\ IsAncestorOrSelf(d, a, d[n].parent))

\* Element.children
Children(d, n) == {c \in Nodes(d) : d[c].parent = n}

Descendants(d, n) == {m \in Nodes(d) : m # n /\ IsAncestorOrSelf(d, n, m)}

Subtree(d, n) == {m \in Nodes(d) : IsAncestorOrSelf(d, n, m)}

RECURSIVE ConcatText(_, _, _)
ConcatText(d, n, i) ==
    IF i > Len(d) THEN <<>>
    ELSE (IF i \in Subtree(d, n) THEN d[i].text ELSE <<>>) \o ConcatText(d, n, i + 1)

\* Node.textContent (trimmed): the words of the subtree in document order.
TextContent(d, n) == ConcatText(d, n, 1)

\* The strings no CSS parser accepts.
InvalidSelectors == {"[[["}

ParsesAsSelector(s) == s \notin InvalidSelectors

\* Element.matches(selector), for a selector that parses.
Matches(d, n, s) == ParsesAsSelector(s) /\ s # "" /\ (s = d[n].cls \/ s = d[n].tag)

\* Element.getAttribute(name); "" stands for null.
GetAttribute(d, n, name) ==
    CASE name = "data-ad" -> d[n].dataAd
      [] name = "href" -> d[n].href
      [] name = "src" -> d[n].src
      [] name = "aria-label" -> d[n].aria
      [] OTHER -> ""

\* scope.querySelectorAll(selector): descendants of scope in document order.
QuerySelectorAll(d, scope, s) ==
    SelectSeq(NodeSeq(d), LAMBDA m : m \in Descendants(d, scope) /\ Matches(d, m, s))

\* scope.querySelector(selector); 0 stands for null.
QuerySelector(d, scope, s) ==
    LET all == QuerySelectorAll(d, scope, s)
    IN IF all = <<>> THEN 0 ELSE all[1]

\* document.querySelector(selector): the body itself can be the answer.
DocumentQuerySelector(d, s) ==
    LET all == SelectSeq(NodeSeq(d), LAMBDA m : Matches(d, m, s))
    IN IF all = <<>> THEN 0 ELSE all[1]

RECURSIVE Closest(_, _, _)
\* Element.closest(selector); 0 stands for null.
Closest(d, n, s) ==
    IF n = 0 THEN 0
    ELSE IF Matches(d, n, s) THEN n
    ELSE Closest(d, d[n].parent, s)

\* Matches of the attribute selectors [key] and [key="value"].
QueryAttributeAll(d, scope, key, value) ==
    SelectSeq(NodeSeq(d), LAMBDA m :
        /\ m \in Descendants(d, scope)
        /\ GetAttribute(d, m, key) # ""
        /\ (value # "" => GetAttribute(d, m, key) = value))

----------------------------------------------------------------------------
(* Label-led detection (labelLedDetection)                                 *)

\* 'span, div, p, a, button, label, h1 .. h6' among the tags of the model.
TextTags == {"span", "div", "a"}

\* for (const node of element.childNodes) text nodes only, trimmed
getDirectText(d, n) == d[n].text

RECURSIVE traverse(_, _, _, _)
traverse(d, el, currentDepth, searchText) ==
    IF \E w \in Range(getDirectText(d, el)) : TokContains(w, searchText)
    THEN currentDepth
    ELSE LET below == {traverse(d, c, currentDepth + 1, searchText) : c \in Children(d, el)}
         IN SetMin(below \cup {Len(d) + 1})     \* Len(d) + 1 stands for Infinity

getTextDepth(d, element, searchText) == traverse(d, element, 0, searchText)

\* Depth-first search in document order; 0 stands for null.
findLabelChild(d, parent, searchText) ==
    LET hits == {m \in Subtree(d, parent) :
                    \E w \in Range(getDirectText(d, m)) : TokContains(w, searchText)}
    IN IF hits = {} THEN 0 ELSE SetMin(hits)

\* The first label text matching the element's text as a whole word; 0 if none.
FirstLabelIndex(d, element, labelTexts) ==
    LET hits == {i \in 1..Len(labelTexts) :
                    \E w \in Range(TextContent(d, element)) : WordMatch(w, labelTexts[i])}
    IN IF hits = {} THEN 0 ELSE SetMin(hits)

LabelResult(d, element, labelText) ==
    IF \E w \in Range(getDirectText(d, element)) : WordMatch(w, labelText)
    THEN [element |-> element, confidence |-> 100, labelElement |-> element]
    ELSE LET depth == getTextDepth(d, element, labelText)
             child == findLabelChild(d, element, labelText)
             le == IF child # 0 THEN child ELSE element
         IN [element |-> element,
             confidence |-> IF depth <= 2 THEN 90 ELSE IF depth <= 4 THEN 80 ELSE 70,
             labelElement |-> le]

RECURSIVE LabelScan(_, _, _, _)
LabelScan(d, root, labelTexts, i) ==
    IF i > Len(d) THEN <<>>
    ELSE LET k == IF i \in Descendants(d, root) /\ d[i].tag \in TextTags
                  THEN FirstLabelIndex(d, i, labelTexts) ELSE 0
         IN (IF k = 0 THEN <<>> ELSE <<LabelResult(d, i, labelTexts[k])>>)
            \o LabelScan(d, root, labelTexts, i + 1)

findLabelElements(d, root, labelTexts) == LabelScan(d, root, labelTexts, 1)

\* Lower and upper number of children of a div that "looks like a container".
MinContainerChildren == 2
MaxContainerChildren == 20

isLikelyAdContainer(d, n) ==
    \/ d[n].tag \in {"article", "section"}
    \/ /\ d[n].tag = "div"
       /\ \/ d[n].dataAd # ""
          \/ LET k == Cardinality({c \in Children(d, n) : d[c].tag \notin {"script", "style"}})
             IN k >= MinContainerChildren /\ k <= MaxContainerChildren

RECURSIVE WalkUp(_, _, _, _)
WalkUp(d, current, depth, maxDepth) ==
    IF current = 0 \/ depth >= maxDepth THEN 0
    ELSE IF isLikelyAdContainer(d, current) THEN current
    ELSE WalkUp(d, d[current].parent, depth + 1, maxDepth)

findContainerFromLabel(d, labelElement, containerSelector, maxDepth) ==
    IF containerSelector # ""
    THEN IF ParsesAsSelector(containerSelector)
         THEN [thrown |-> FALSE, value |-> Closest(d, labelElement, containerSelector)]
         ELSE [thrown |-> TRUE, value |-> 0]
    ELSE [thrown |-> FALSE, value |-> WalkUp(d, labelElement, 0, maxDepth)]

\* The depth findContainersByLabel passes to findContainerFromLabel.
LabelMaxDepth == 10

\* The scope of a rule: document.querySelector(scopeSelector), or the body.
RuleScope(d, rule) ==
    IF rule.scopeSelector = "" THEN [thrown |-> FALSE, value |-> 1]
    ELSE IF ParsesAsSelector(rule.scopeSelector)
         THEN [thrown |-> FALSE, value |-> DocumentQuerySelector(d, rule.scopeSelector)]
         ELSE [thrown |-> TRUE, value |-> 0]

RECURSIVE LabelLoop(_, _, _, _, _, _)
\* The loop of findContainersByLabel over the label results.
LabelLoop(d, rule, results, i, seenContainers, matches) ==
    IF i > Len(results) THEN [thrown |-> FALSE, matches |-> matches]
    ELSE LET r == results[i]
             c == findContainerFromLabel(d, r.element, rule.containerSelector, LabelMaxDepth)
         IN IF c.thrown THEN [thrown |-> TRUE, matches |-> <<>>]
            ELSE IF c.value # 0 /\ c.value \notin seenContainers
            THEN LabelLoop(d, rule, results, i + 1, seenContainers \cup {c.value},
                     Append(matches,
                        [container |-> c.value, ruleId |-> rule.id, ruleType |-> "label-led",
                         score |-> rule.score * r.confidence,
                         labelElement |-> r.labelElement,
                         labelConfidence |-> r.confidence]))
            ELSE LabelLoop(d, rule, results, i + 1, seenContainers, matches)

findContainersByLabel(d, rule) ==
    IF rule.type # "label-led" \/ rule.labelTexts = <<>>
    THEN [thrown |-> FALSE, matches |-> <<>>]
    ELSE LET scope == RuleScope(d, rule)
         IN IF scope.thrown THEN [thrown |-> TRUE, matches |-> <<>>]
            ELSE IF scope.value = 0 THEN [thrown |-> FALSE, matches |-> <<>>]
            ELSE LabelLoop(d, rule, findLabelElements(d, scope.value, rule.labelTexts),
                           1, {}, <<>>)

\* Score factor of an aria-label match (0.95).
AriaConfidence == 95

RECURSIVE AriaLoop(_, _, _, _, _, _)
\* Strategy 2 of findContainersByLabelAdvanced: label texts outermost, then
\* document.querySelectorAll('[aria-label]') in document order.
AriaLoop(d, rule, li, i, seenContainers, matches) ==
    IF li > Len(rule.labelTexts) THEN [thrown |-> FALSE, matches |-> matches]
    ELSE IF i > Len(d) THEN AriaLoop(d, rule, li + 1, 1, seenContainers, matches)
    ELSE IF d[i].aria # "" /\ TokContains(d[i].aria, rule.labelTexts[li])
    THEN IF rule.containerSelector # "" /\ ~ParsesAsSelector(rule.containerSelector)
         THEN [thrown |-> TRUE, matches |-> <<>>]
         ELSE LET container == IF rule.containerSelector # ""
                               THEN Closest(d, i, rule.containerSelector) ELSE i
              IN IF container # 0 /\ container \notin seenContainers
                 THEN AriaLoop(d, rule, li, i + 1, seenContainers \cup {container},
                          Append(matches,
                             [container |-> container, ruleId |-> rule.id \o "-aria",
                              ruleType |-> "label-led",
                              score |-> rule.score * AriaConfidence,
                              labelElement |-> 0, labelConfidence |-> 0]))
                 ELSE AriaLoop(d, rule, li, i + 1, seenContainers, matches)
    ELSE AriaLoop(d, rule, li, i + 1, seenContainers, matches)

findContainersByLabelAdvanced(d, rule) ==
    IF rule.type # "label-led" THEN [thrown |-> FALSE, matches |-> <<>>]
    ELSE LET direct == findContainersByLabel(d, rule)
         IN IF direct.thrown THEN direct
            ELSE AriaLoop(d, rule, 1, 1,
                          {direct.matches[k].container : k \in 1..Len(direct.matches)},
                          direct.matches)

----------------------------------------------------------------------------
(* Phase 1: container detection (detector.ts)                              *)

CssMatch(rule, n) ==
    [container |-> n, ruleId |-> rule.id, ruleType |-> "css", score |-> rule.score * 100,
     labelElement |-> 0, labelConfidence |-> 0]

findContainersByCss(d, rule, scope) ==
    IF rule.selector = "" THEN [thrown |-> FALSE, matches |-> <<>>]
    ELSE IF ~ParsesAsSelector(rule.selector) THEN [thrown |-> TRUE, matches |-> <<>>]
    ELSE LET elements == QuerySelectorAll(d, scope, rule.selector)
         IN [thrown |-> FALSE,
             matches |-> [k \in 1..Len(elements) |-> CssMatch(rule, elements[k])]]

AttributeMatch(rule, n) ==
    [container |-> n, ruleId |-> rule.id, ruleType |-> "attribute", score |-> rule.score * 100,
     labelElement |-> 0, labelConfidence |-> 0]

findContainersByAttribute(d, rule, scope) ==
    IF rule.attributeKey = "" THEN [thrown |-> FALSE, matches |-> <<>>]
    ELSE LET elements == QueryAttributeAll(d, scope, rule.attributeKey, rule.attributeValue)
         IN [thrown |-> FALSE,
             matches |-> [k \in 1..Len(elements) |-> AttributeMatch(rule, elements[k])]]

\* Mutant: only the container itself is tested, not its descendants.
ExcludedBySelectorSelfOnly(d, n, excludeSelectors) ==
    \E i \in 1..Len(excludeSelectors) :
        /\ ParsesAsSelector(excludeSelectors[i])
        /\ Matches(d, n, excludeSelectors[i])

\* An invalid exclude selector throws inside the try of the filter callback and
\* is skipped; the loop goes on with the next selector.
ExcludedBySelector(d, n, excludeSelectors) ==
    \E i \in 1..Len(excludeSelectors) :
        /\ ParsesAsSelector(excludeSelectors[i])
        /\ \/ Matches(d, n, excludeSelectors[i])
           \/ QuerySelector(d, n, excludeSelectors[i]) # 0

ExcludedByText(d, n, excludeIfContains) ==
    \E i \in 1..Len(excludeIfContains) :
        \E w \in Range(TextContent(d, n)) : Includes(w, excludeIfContains[i])

ExcludedByAncestor(d, n, excludeAncestors) ==
    \E i \in 1..Len(excludeAncestors) :
        /\ ParsesAsSelector(excludeAncestors[i])
        /\ Closest(d, n, excludeAncestors[i]) # 0

applyNegativeFilters(d, matches, rule) ==
    SelectSeq(matches, LAMBDA m :
        /\ ~ExcludedBySelector(d, m.container, rule.excludeSelectors)
        /\ ~ExcludedByText(d, m.container, rule.excludeIfContains)
        /\ ~ExcludedByAncestor(d, m.container, rule.excludeAncestors))

\* The matches of the rule's own strategy, before the negative filters.
RuleStrategy(d, rule, scope) ==
    CASE rule.type = "css" -> findContainersByCss(d, rule, scope)
      [] rule.type = "label-led" -> findContainersByLabelAdvanced(d, rule)
      [] rule.type = "attribute" -> findContainersByAttribute(d, rule, scope)
      [] OTHER -> [thrown |-> FALSE, matches |-> <<>>]

executeContainerRule(d, rule) ==
    LET scope == RuleScope(d, rule)
    IN IF scope.thrown THEN [thrown |-> TRUE, matches |-> <<>>]
       ELSE IF scope.value = 0 THEN [thrown |-> FALSE, matches |-> <<>>]
       ELSE LET found == RuleStrategy(d, rule, scope.value)
            IN IF found.thrown THEN found
               ELSE [thrown |-> FALSE, matches |-> applyNegativeFilters(d, found.matches, rule)]

\* Mutant: a later candidate of equal score replaces the kept one.
DedupReplacesOnTie(candidate, existing) == candidate.score >= existing.score

\* candidate.score > existing.score
DedupReplaces(candidate, existing) == candidate.score > existing.score

RECURSIVE DedupLoop(_, _, _)
\* A Map keeps the position of a key's first insertion when its value is replaced.
DedupLoop(candidates, i, kept) ==
    IF i > Len(candidates) THEN kept
    ELSE LET c == candidates[i]
             at == {k \in 1..Len(kept) : kept[k].container = c.container}
         IN IF at = {} THEN DedupLoop(candidates, i + 1, Append(kept, c))
            ELSE LET k == CHOOSE x \in at : TRUE
                 IN IF DedupReplaces(c, kept[k])
                    THEN DedupLoop(candidates, i + 1, [kept EXCEPT ![k] = c])
                    ELSE DedupLoop(candidates, i + 1, kept)

deduplicateContainers(candidates) == DedupLoop(candidates, 1, <<>>)

\* The fixed container threshold (0.6), in hundredths.
DefaultContainerThreshold == 60
\* The ceiling of the adaptive threshold (0.95), in hundredths.
AdaptiveCeiling == 95

RECURSIVE SumScores(_)
SumScores(matches) ==
    IF matches = <<>> THEN 0 ELSE matches[1].score + SumScores(Tail(matches))

\* Mutant: without the floor threshold = Math.max(threshold, minConfidence).
calculateDynamicThresholdNoFloor(matches, cfg) ==
    IF Len(matches) = 0
    THEN <<DefaultContainerThreshold * 100, 1>>
    ELSE LET maxScore == CHOOSE s \in {matches[k].score : k \in 1..Len(matches)} :
                            \A k \in 1..Len(matches) : matches[k].score <= s
             avgScore == <<SumScores(matches), Len(matches)>>
             t0 == <<maxScore * 8, 10>>
             t1 == IF RLess(avgScore, <<t0[1] * 7, t0[2] * 10>>)
                   THEN RMax(<<avgScore[1] * 11, avgScore[2] * 10>>,
                             <<cfg.minConfidence * 100, 1>>)
                   ELSE t0
         IN RMin(t1, <<AdaptiveCeiling * 100, 1>>)

\* Mutant: the average-based threshold is used whatever the average is.
calculateDynamicThresholdAlwaysAverage(matches, cfg) ==
    IF Len(matches) = 0
    THEN <<DefaultContainerThreshold * 100, 1>>
    ELSE LET avgScore == <<SumScores(matches), Len(matches)>>
             minConf == <<cfg.minConfidence * 100, 1>>
             t1 == RMax(<<avgScore[1] * 11, avgScore[2] * 10>>, minConf)
         IN RMin(t1, <<AdaptiveCeiling * 100, 1>>)

\* The threshold in ten-thousandths, as a rational.
calculateDynamicThreshold(matches, cfg) ==
    IF Len(matches) = 0
    THEN IF cfg.containerScoreThreshold = Undefined \/ cfg.containerScoreThreshold = 0
         THEN <<DefaultContainerThreshold * 100, 1>>
         ELSE <<cfg.containerScoreThreshold * 100, 1>>
    ELSE LET maxScore == CHOOSE s \in {matches[k].score : k \in 1..Len(matches)} :
                            \A k \in 1..Len(matches) : matches[k].score <= s
             avgScore == <<SumScores(matches), Len(matches)>>
             minConf == <<cfg.minConfidence * 100, 1>>
             t0 == <<maxScore * 8, 10>>
             t1 == IF RLess(avgScore, <<t0[1] * 7, t0[2] * 10>>)
                   THEN RMax(<<avgScore[1] * 11, avgScore[2] * 10>>, minConf)
                   ELSE t0
             t2 == RMax(t1, minConf)
         IN RMin(t2, <<AdaptiveCeiling * 100, 1>>)

RECURSIVE RunContainerRulesAborting(_, _, _)
\* Mutant: a rule that throws ends the loop and discards what was collected.
RunContainerRulesAborting(d, rules, i) ==
    IF i > Len(rules) THEN <<>>
    ELSE IF \E j \in i..Len(rules) : executeContainerRule(d, rules[j]).thrown THEN <<>>
    ELSE executeContainerRule(d, rules[i]).matches \o RunContainerRulesAborting(d, rules, i + 1)

\* The candidates of all rules in declaration order; a rule that throws adds none.
RECURSIVE RunContainerRules(_, _, _)
RunContainerRules(d, rules, i) ==
    IF i > Len(rules) THEN <<>>
    ELSE LET r == executeContainerRule(d, rules[i])
         IN (IF r.thrown THEN <<>> ELSE r.matches) \o RunContainerRules(d, rules, i + 1)

\* Mutant: a threshold of 0 counts as not set (containerScoreThreshold || ...).
ContainerThresholdIfTruthy(cfg, uniqueMatches) ==
    IF cfg.containerScoreThreshold # Undefined /\ cfg.containerScoreThreshold # 0
    THEN <<cfg.containerScoreThreshold * 100, 1>>
    ELSE IF cfg.adaptiveThreshold THEN calculateDynamicThreshold(uniqueMatches, cfg)
    ELSE <<DefaultContainerThreshold * 100, 1>>

\* The threshold findAdContainers filters with, in ten-thousandths.
ContainerThreshold(cfg, uniqueMatches) ==
    IF cfg.containerScoreThreshold # Undefined THEN <<cfg.containerScoreThreshold * 100, 1>>
    ELSE IF cfg.adaptiveThreshold THEN calculateDynamicThreshold(uniqueMatches, cfg)
    ELSE <<DefaultContainerThreshold * 100, 1>>

\* uniqueMatches.filter(match => match.score >= threshold)
AboveThreshold(cfg, uniqueMatches) ==
    LET threshold == ContainerThreshold(cfg, uniqueMatches)
    IN SelectSeq(uniqueMatches, LAMBDA m : RLeq(threshold, <<m.score, 1>>))

\* Mutant: the containers a pass has already seen are left out of the result.
findAdContainersSkippingSeen(cfg, d) ==
    SelectSeq(AboveThreshold(cfg, deduplicateContainers(RunContainerRules(d, cfg.containerRules, 1))),
              LAMBDA m : m.container \notin seen)

findAdContainers(cfg, d) ==
    AboveThreshold(cfg, deduplicateContainers(RunContainerRules(d, cfg.containerRules, 1)))

----------------------------------------------------------------------------
(* Phase 2: field extraction (detector.ts)                                 *)

AdFields == {"label", "advertiser", "advertiserHandle", "headline", "body", "cta",
             "destinationUrl", "image", "video"}

\* The keys of a FieldData object.
FieldKeys == {"label", "advertiser", "advertiserHandle", "headline", "body", "cta",
              "destinationUrl", "images", "videos"}

\* new URL(w) succeeds
UrlParses(w) == w \in {"https://acme.test/", "https://acme.test",
                       "https://acme.test/?utm_source=x", "javascript:void(0)"}

\* parsed.protocol === 'http:' || parsed.protocol === 'https:'
UrlIsHttp(w) == w \in {"https://acme.test/", "https://acme.test",
                       "https://acme.test/?utm_source=x"}

\* url.searchParams.delete(each tracking parameter); url.toString()
UrlClean(w) ==
    CASE w = "https://acme.test" -> "https://acme.test/"
      [] w = "https://acme.test/?utm_source=x" -> "https://acme.test/"
      [] OTHER -> w

applyTransform(value, transform) ==
    CASE transform = "trim" -> value
      [] transform = "lowercase" -> [k \in 1..Len(value) |-> Lower(value[k])]
      [] transform = "url-clean" ->
            IF Len(value) = 1 /\ UrlParses(value[1]) THEN <<UrlClean(value[1])>> ELSE value
      [] OTHER -> value

RECURSIVE MediaLoop(_, _, _, _)
MediaLoop(d, elements, attr, i) ==
    IF i > Len(elements) THEN <<>>
    ELSE (IF GetAttribute(d, elements[i], attr) # ""
          THEN <<GetAttribute(d, elements[i], attr)>> ELSE <<>>)
         \o MediaLoop(d, elements, attr, i + 1)

extractMediaUrls(d, container, selector, attr) ==
    MediaLoop(d, QuerySelectorAll(d, container, selector), attr, 1)

RECURSIVE getElementPath(_, _)
\* The elements from the top of the document down to the element.
getElementPath(d, element) ==
    IF element = 0 THEN <<>>
    ELSE Append(getElementPath(d, d[element].parent), element)

RECURSIVE CommonDepth(_, _, _)
CommonDepth(path1, path2, k) ==
    IF k < Len(path1) /\ k < Len(path2) /\ path1[k + 1] = path2[k + 1]
    THEN CommonDepth(path1, path2, k + 1)
    ELSE k

getDOMDistance(d, el1, el2) ==
    LET path1 == getElementPath(d, el1)
        path2 == getElementPath(d, el2)
        commonDepth == CommonDepth(path1, path2, 0)
    IN (Len(path1) - commonDepth) + (Len(path2) - commonDepth)

RECURSIVE NearestLoop(_, _, _, _, _, _)
\* closest = the first candidate with the strictly smallest distance
NearestLoop(d, reference, candidates, i, closest, minDistance) ==
    IF i > Len(candidates) THEN closest
    ELSE LET distance == getDOMDistance(d, reference, candidates[i])
         IN IF closest = 0 \/ distance < minDistance
            THEN NearestLoop(d, reference, candidates, i + 1, candidates[i], distance)
            ELSE NearestLoop(d, reference, candidates, i + 1, closest, minDistance)

\* Mutant: the first match in document order, whatever its distance.
findFirstMatch(d, reference, selector, container) ==
    LET candidates == QuerySelectorAll(d, container, selector)
    IN IF Len(candidates) = 0 THEN 0 ELSE candidates[1]

\* For a selector that parses; 0 stands for null.
findNearestMatch(d, reference, selector, container) ==
    LET candidates == QuerySelectorAll(d, container, selector)
    IN IF Len(candidates) = 0 THEN 0
       ELSE IF Len(candidates) = 1 THEN candidates[1]
       ELSE NearestLoop(d, reference, candidates, 1, 0, 0)

ContextFields == {"advertiser", "advertiserHandle"}

\* element = findNearestMatch(...); if (!element) element = container.querySelector(...)
FirstNonNull(element, fallback) == IF element # 0 THEN element ELSE fallback

\* The element a field rule reads: the nearest match to the label element when
\* there is one and the field is context-aware, else the first match.
RuleElement(d, container, field, rule, labelElement) ==
    FirstNonNull(IF labelElement # 0 /\ field \in ContextFields
                 THEN findNearestMatch(d, labelElement, rule.selector, container)
                 ELSE 0,
                 QuerySelector(d, container, rule.selector))

\* "continue": the rule produces nothing.
NoOutcome == [ok |-> FALSE, value |-> <<>>, element |-> 0]

\* The value read from the element: the attribute, the media URLs, or the text.
RuleValue(d, container, field, rule, element) ==
    IF rule.attr # ""
    THEN (IF GetAttribute(d, element, rule.attr) = "" THEN <<>>
          ELSE <<GetAttribute(d, element, rule.attr)>>)
    ELSE IF field \in {"image", "video"}
    THEN extractMediaUrls(d, container, rule.selector, "src")
    ELSE TextContent(d, element)

\* if (typeof value === 'string' && rule.transform) value = applyTransform(...)
Transformed(field, rule, raw) ==
    IF (rule.attr # "" \/ field \notin {"image", "video"}) /\ rule.transform # ""
    THEN applyTransform(raw, rule.transform)
    ELSE raw

OutcomeOfValue(field, rule, element, raw) ==
    IF raw = <<>> THEN NoOutcome
    ELSE [ok |-> TRUE, value |-> Transformed(field, rule, raw), element |-> element]

OutcomeAt(d, container, field, rule, element) ==
    IF element = 0 THEN NoOutcome
    ELSE OutcomeOfValue(field, rule, element, RuleValue(d, container, field, rule, element))

\* One turn of the loop of extractField: the value the rule produces, if any.
\* A selector that does not parse throws inside the try and the rule is skipped.
RuleOutcome(d, container, field, rule, labelElement) ==
    IF ~ParsesAsSelector(rule.selector) \/ rule.selector = "" THEN NoOutcome
    ELSE OutcomeAt(d, container, field, rule,
                   RuleElement(d, container, field, rule, labelElement))

RECURSIVE ExtractLoop(_, _, _, _, _, _)
RECURSIVE ExtractStep(_, _, _, _, _, _, _)
\* The end of a turn: return the extraction, or go on with the next rule.
ExtractStep(d, container, field, rules, labelElement, i, o) ==
    IF o.ok
    THEN [found |-> TRUE, field |-> field, value |-> o.value,
          ruleId |-> rules[i].id, selector |-> rules[i].selector,
          score |-> rules[i].score, element |-> o.element, consulted |-> i]
    ELSE ExtractLoop(d, container, field, rules, labelElement, i + 1)

ExtractLoop(d, container, field, rules, labelElement, i) ==
    IF i > Len(rules)
    THEN [found |-> FALSE, field |-> field, value |-> <<>>, ruleId |-> "", selector |-> "",
          score |-> 0, element |-> 0, consulted |-> Len(rules)]
    ELSE ExtractStep(d, container, field, rules, labelElement, i,
                     RuleOutcome(d, container, field, rules[i], labelElement))

\* found = FALSE stands for null.  "element" (the element read) and "consulted"
\* (how many rules of the chain were tried) are bookkeeping of the model.
extractField(d, container, field, rules, labelElement) ==
    ExtractLoop(d, container, field, rules, labelElement, 1)

RECURSIVE InsertByScore(_, _)
InsertByScore(sorted, r) ==
    IF sorted = <<>> THEN <<r>>
    ELSE IF sorted[Len(sorted)].score >= r.score THEN Append(sorted, r)
    ELSE Append(InsertByScore(SubSeq(sorted, 1, Len(sorted) - 1), r), sorted[Len(sorted)])

RECURSIVE SortLoop(_, _, _)
SortLoop(rules, i, sorted) ==
    IF i > Len(rules) THEN sorted
    ELSE SortLoop(rules, i + 1, InsertByScore(sorted, rules[i]))

\* Mutant: the rules stay in declaration order.
keepDeclarationOrder(rules) == rules

\* fieldRules.sort((a, b) => b.score - a.score): stable, highest score first
sortFieldRules(rules) == SortLoop(rules, 1, <<>>)

RECURSIVE FieldOrder(_, _, _)
\* The keys of rulesByField in insertion order.
FieldOrder(rules, i, order) ==
    IF i > Len(rules) THEN order
    ELSE IF rules[i].field \in Range(order) THEN FieldOrder(rules, i + 1, order)
    ELSE FieldOrder(rules, i + 1, Append(order, rules[i].field))

rulesByField(rules, field) == SelectSeq(rules, LAMBDA r : r.field = field)

FieldKeyOf(field) ==
    CASE field = "image" -> "images"
      [] field = "video" -> "videos"
      [] OTHER -> field

EmptyFields == [k \in FieldKeys |-> <<>>]

setFieldValue(fields, field, value) == [fields EXCEPT ![FieldKeyOf(field)] = value]

RECURSIVE ExtractAll(_, _, _, _, _, _, _, _)
RECURSIVE ExtractNext(_, _, _, _, _, _, _, _, _)
\* if (result) { extractions.push(result); setFieldValue(fields, field, result.value) }
ExtractNext(d, container, rules, labelElement, order, i, fields, extractions, result) ==
    IF result.found
    THEN ExtractAll(d, container, rules, labelElement, order, i + 1,
                    setFieldValue(fields, order[i], result.value),
                    Append(extractions, result))
    ELSE ExtractAll(d, container, rules, labelElement, order, i + 1, fields, extractions)

\* The loop of extractFields over the fields, in the order of rulesByField.
ExtractAll(d, container, rules, labelElement, order, i, fields, extractions) ==
    IF i > Len(order) THEN [fields |-> fields, extractions |-> extractions]
    ELSE ExtractNext(d, container, rules, labelElement, order, i, fields, extractions,
                     extractField(d, container, order[i],
                                  sortFieldRules(rulesByField(rules, order[i])),
                                  labelElement))

\* labelElement = 0 stands for "no context".
extractFields(d, container, rules, labelElement) ==
    ExtractAll(d, container, rules, labelElement, FieldOrder(rules, 1, <<>>), 1,
               EmptyFields, <<>>)

----------------------------------------------------------------------------
(* Phase 3: validation and scoring (validators)                            *)

\* The patterns new RegExp rejects.
InvalidPatterns == {"("}

getFieldValue(field, fields) ==
    IF field \in AdFields THEN fields[FieldKeyOf(field)] ELSE <<>>

validateRequiredField(field, fields, weight) ==
    LET passed == getFieldValue(field, fields) # <<>>
    IN [passed |-> passed,
        message |-> IF passed THEN "Field present" ELSE "Missing required field",
        score |-> IF passed THEN <<weight, 1>> ELSE <<0, 1>>]

\* For a pattern that compiles.
validateLabelPattern(pattern, fields, weight) ==
    LET passed == \E w \in Range(fields["label"]) : TokContains(w, pattern)
    IN [passed |-> passed,
        message |-> IF passed THEN "Label matches pattern" ELSE "Label does not match pattern",
        score |-> IF passed THEN <<weight, 1>> ELSE <<0, 1>>]

validateUrl(url, weight) ==
    IF url = <<>>
    THEN [passed |-> FALSE, message |-> "URL is missing or empty", score |-> <<0, 1>>]
    ELSE IF Len(url) = 1 /\ UrlParses(url[1])
    THEN [passed |-> UrlIsHttp(url[1]),
          message |-> IF UrlIsHttp(url[1]) THEN "Valid URL" ELSE "Invalid URL protocol",
          score |-> IF UrlIsHttp(url[1]) THEN <<weight, 1>> ELSE <<0, 1>>]
    ELSE [passed |-> FALSE, message |-> "Invalid URL format", score |-> <<0, 1>>]

\* Partial credit weight * (length / minLength) below the minimum; passed is
\* always true for minLength = 0, so the division is never by zero.
validateMinTextLength(field, fields, minLength, weight) ==
    LET text == IF field \in {"image", "video"} THEN <<>> ELSE getFieldValue(field, fields)
        passed == StrLen(text) >= minLength
    IN [passed |-> passed,
        message |-> IF passed THEN "Field has sufficient length" ELSE "Field too short",
        score |-> IF passed THEN <<weight, 1>> ELSE <<weight * StrLen(text), minLength>>]

ValidatorTypes == {"required-field", "label-pattern", "url-valid", "min-text-length"}

\* The validators the switch skips with "continue" after counting their weight.
ValidatorSkipped(v) ==
    \/ v.type \notin ValidatorTypes
    \/ (v.type = "required-field" /\ v.field = "")
    \/ (v.type = "label-pattern" /\ v.pattern = "")
    \/ (v.type = "min-text-length" /\ (v.field = "" \/ v.minLength = Undefined))

ValidatorThrows(v) == v.type = "label-pattern" /\ v.pattern \in InvalidPatterns

RunValidator(v, fields) ==
    CASE v.type = "required-field" -> validateRequiredField(v.field, fields, v.weight)
      [] v.type = "label-pattern" -> validateLabelPattern(v.pattern, fields, v.weight)
      [] v.type = "url-valid" -> validateUrl(fields["destinationUrl"], v.weight)
      [] OTHER -> validateMinTextLength(v.field, fields, v.minLength, v.weight)

RECURSIVE ValidateLoopSkippingWeights(_, _, _, _, _, _)
\* Mutant: the weight of a validator that is skipped is not counted.
ValidateLoopSkippingWeights(fields, validators, i, totalScore, maxPossibleScore, reasons) ==
    IF i > Len(validators)
    THEN [thrown |-> FALSE, totalScore |-> totalScore,
          maxPossibleScore |-> maxPossibleScore, reasons |-> reasons]
    ELSE IF ValidatorSkipped(validators[i])
    THEN ValidateLoopSkippingWeights(fields, validators, i + 1, totalScore,
                                     maxPossibleScore, reasons)
    ELSE IF ValidatorThrows(validators[i])
    THEN [thrown |-> TRUE, totalScore |-> totalScore,
          maxPossibleScore |-> maxPossibleScore + validators[i].weight, reasons |-> reasons]
    ELSE ValidateLoopSkippingWeights(fields, validators, i + 1,
             RAdd(totalScore, RunValidator(validators[i], fields).score),
             maxPossibleScore + validators[i].weight,
             Append(reasons, RunValidator(validators[i], fields).message))

RECURSIVE ValidateLoop(_, _, _, _, _, _)
ValidateLoop(fields, validators, i, totalScore, maxPossibleScore, reasons) ==
    IF i > Len(validators)
    THEN [thrown |-> FALSE, totalScore |-> totalScore,
          maxPossibleScore |-> maxPossibleScore, reasons |-> reasons]
    ELSE LET v == validators[i]
         IN IF ValidatorSkipped(v)
            THEN ValidateLoop(fields, validators, i + 1, totalScore,
                              maxPossibleScore + v.weight, reasons)
            ELSE IF ValidatorThrows(v)
            THEN [thrown |-> TRUE, totalScore |-> totalScore,
                  maxPossibleScore |-> maxPossibleScore + v.weight, reasons |-> reasons]
            ELSE LET result == RunValidator(v, fields)
                 IN ValidateLoop(fields, validators, i + 1, RAdd(totalScore, result.score),
                                 maxPossibleScore + v.weight, Append(reasons, result.message))

\* Mutant: the comparison the other way round.
MeetsMinConfidenceReversed(confidence, minConfidence) ==
    RLeq(confidence, <<minConfidence, 100>>)

\* confidence >= minConfidence, minConfidence in hundredths
MeetsMinConfidence(confidence, minConfidence) == RLeq(<<minConfidence, 100>>, confidence)

validateAdCandidate(fields, validators, minConfidence) ==
    LET run == ValidateLoop(fields, validators, 1, <<0, 1>>, 0, <<>>)
        confidence == IF run.maxPossibleScore > 0
                      THEN <<run.totalScore[1], run.totalScore[2] * run.maxPossibleScore>>
                      ELSE <<0, 1>>
        valid == MeetsMinConfidence(confidence, minConfidence)
    IN [thrown |-> run.thrown, valid |-> valid, confidence |-> confidence,
        reasons |-> IF valid THEN run.reasons
                    ELSE <<"Confidence below threshold">> \o run.reasons]

\* Field completeness in tenths over the maximum 1.5.
computeConfidence(fields) ==
    LET w(key, weight) == IF fields[key] # <<>> THEN weight ELSE 0
    IN <<w("advertiser", 3) + w("destinationUrl", 3) + w("label", 2) + w("headline", 2)
         + w("body", 1) + w("images", 1) + w("videos", 1), 15>>

createDefaultValidation(fields, minConfidence) ==
    LET confidence == computeConfidence(fields)
    IN [thrown |-> FALSE, valid |-> MeetsMinConfidence(confidence, minConfidence),
        confidence |-> confidence,
        reasons |-> (IF fields["advertiser"] = <<>> THEN <<"Missing advertiser">> ELSE <<>>)
                    \o (IF fields["destinationUrl"] = <<>>
                        THEN <<"Missing destination URL">> ELSE <<>>)
                    \o (IF fields["label"] = <<>> THEN <<"Missing ad label">> ELSE <<>>)]

\* The validation detectAds runs on the fields of one container.
Validate(cfg, fields) ==
    IF cfg.validatorsDefined /\ Len(cfg.validators) > 0
    THEN validateAdCandidate(fields, cfg.validators, cfg.minConfidence)
    ELSE createDefaultValidation(fields, cfg.minConfidence)

----------------------------------------------------------------------------
(* Metrics collector (metricsCollector.ts): the record operations          *)

RECURSIVE Gcd(_, _)
Gcd(a, b) == IF b = 0 THEN a ELSE Gcd(b, a % b)

\* Rationals are stored in lowest terms so that equal values are equal states.
Norm(r) == IF r[1] = 0 THEN <<0, 1>>
           ELSE LET g == Gcd(r[1], r[2]) IN <<r[1] \div g, r[2] \div g>>

getOrCreateMetric(m, ruleId, ruleType, now) ==
    IF ruleId \in DOMAIN m THEN m[ruleId]
    ELSE [ruleType |-> ruleType, timesMatched |-> 0, timesValidated |-> 0,
          averageConfidence |-> <<0, 1>>, lastUsed |-> now, successRate |-> <<0, 1>>]

\* The body shared by recordContainerMatch and recordFieldMatch.
RecordMatch(m, ruleId, ruleType, counted, sample, now) ==
    LET metric == getOrCreateMetric(m, ruleId, ruleType, now)
        n == metric.timesMatched + 1
        v == metric.timesValidated + (IF counted THEN 1 ELSE 0)
        avg == metric.averageConfidence
        updated == [metric EXCEPT
                      !.timesMatched = n,
                      !.timesValidated = v,
                      !.averageConfidence =
                          Norm(<<avg[1] * (n - 1) * sample[2] + sample[1] * avg[2],
                                 avg[2] * sample[2] * n>>),
                      !.lastUsed = now,
                      !.successRate = Norm(<<v, n>>)]
    IN [id \in DOMAIN m \cup {ruleId} |-> IF id = ruleId THEN updated ELSE m[id]]

recordContainerMatch(m, ruleId, validated, confidence, now) ==
    RecordMatch(m, ruleId, "container", validated, confidence, now)

recordFieldMatch(m, ruleId, found, score, now) ==
    RecordMatch(m, ruleId, "field", found, <<score, 100>>, now)

----------------------------------------------------------------------------
(* The complete pipeline (detector.ts, detectAds)                          *)

RECURSIVE RecordFields(_, _, _, _)
RecordFields(m, extractions, i, now) ==
    IF i > Len(extractions) THEN m
    ELSE RecordFields(recordFieldMatch(m, extractions[i].ruleId, TRUE,
                                       extractions[i].score, now),
                      extractions, i + 1, now)

\* Mutant: every validated container is pushed.
AcceptsAlways(validation) == TRUE

\* if (validation.valid) candidates.push(...)
Accepts(validation) == validation.valid

\* The AdCandidate pushed for a valid container.
Candidate(match, ex, validation) ==
    [container |-> match.container, containerMatch |-> match, fields |-> ex.fields,
     fieldExtractions |-> ex.extractions,
     validation |-> [valid |-> validation.valid, confidence |-> validation.confidence,
                     reasons |-> validation.reasons]]

\* The end of the loop body: record the container match, push the candidate.
\* A validator that throws leaves the field metrics recorded and nothing else.
\* Mutant: a rule whose recorded success rate is 0 gives no candidate.
ValidatedTrustingMetrics(match, ex, m1, validation, now) ==
    IF validation.thrown THEN [thrown |-> TRUE, metrics |-> m1, accepted |-> <<>>]
    ELSE [thrown |-> FALSE,
          metrics |-> recordContainerMatch(m1, match.ruleId, validation.valid,
                                           validation.confidence, now),
          accepted |-> IF /\ Accepts(validation)
                          /\ (match.ruleId \in DOMAIN m1 => m1[match.ruleId].successRate[1] # 0)
                       THEN <<Candidate(match, ex, validation)>> ELSE <<>>]

Validated(match, ex, m1, validation, now) ==
    IF validation.thrown THEN [thrown |-> TRUE, metrics |-> m1, accepted |-> <<>>]
    ELSE [thrown |-> FALSE,
          metrics |-> recordContainerMatch(m1, match.ruleId, validation.valid,
                                           validation.confidence, now),
          accepted |-> IF Accepts(validation)
                       THEN <<Candidate(match, ex, validation)>> ELSE <<>>]

\* The loop body after extractFields: field metrics, then validation.
Extracted(cfg, match, ex, m, now) ==
    Validated(match, ex, RecordFields(m, ex.extractions, 1, now), Validate(cfg, ex.fields), now)

\* The loop body of detectAds for a container that was not seen before.
ProcessContainer(cfg, d, match, m, now) ==
    Extracted(cfg, match,
              extractFields(d, match.container, cfg.fieldRules, match.labelElement), m, now)

RECURSIVE DetectLoop(_, _, _, _, _, _, _, _)
RECURSIVE Continue(_, _, _, _, _, _, _, _)
\* After a loop body: a validator that threw ends the call, and what the loop
\* did before stays done.
Continue(cfg, d, containers, i, seen1, step, candidates, now) ==
    IF step.thrown
    THEN [thrown |-> TRUE, seen |-> seen1, metrics |-> step.metrics, candidates |-> <<>>]
    ELSE DetectLoop(cfg, d, containers, i + 1, seen1, step.metrics,
                    candidates \o step.accepted, now)

\* The loop without its test of the seen set.
DetectLoopRevisiting(cfg, d, containers, i, seenContainers, m, candidates, now) ==
    IF i > Len(containers)
    THEN [thrown |-> FALSE, seen |-> seenContainers, metrics |-> m, candidates |-> candidates]
    ELSE Continue(cfg, d, containers, i, seenContainers \cup {containers[i].container},
                  ProcessContainer(cfg, d, containers[i], m, now), candidates, now)

\* The loop of detectAds over the containers.
DetectLoop(cfg, d, containers, i, seenContainers, m, candidates, now) ==
    IF i > Len(containers)
    THEN [thrown |-> FALSE, seen |-> seenContainers, metrics |-> m, candidates |-> candidates]
    ELSE IF containers[i].container \in seenContainers
    THEN DetectLoop(cfg, d, containers, i + 1, seenContainers, m, candidates, now)
    ELSE Continue(cfg, d, containers, i, seenContainers \cup {containers[i].container},
                  ProcessContainer(cfg, d, containers[i], m, now), candidates, now)

detectAds(cfg, seenContainers, d, m, now) ==
    DetectLoop(cfg, d, findAdContainers(cfg, d), 1, seenContainers, m, <<>>, now)

----------------------------------------------------------------------------
(* Config validator (configValidator.ts)                                   *)

\* The error message, or "" for a selector that is accepted.
validateCssSelector(selector) ==
    IF selector = "" THEN "Selector is empty"
    ELSE IF ~ParsesAsSelector(selector) THEN "SyntaxError"
    ELSE ""

Issue(type, message) == [type |-> type, message |-> message]

RECURSIVE SelectorListIssues(_, _, _)
SelectorListIssues(selectors, message, i) ==
    IF i > Len(selectors) THEN <<>>
    ELSE (IF validateCssSelector(selectors[i]) # "" THEN <<Issue("error", message)>> ELSE <<>>)
         \o SelectorListIssues(selectors, message, i + 1)

\* The checks of validateContainerRule that depend on the rule type.
ContainerTypeIssues(rule) ==
    CASE rule.type = "css" ->
            IF rule.selector = "" THEN <<Issue("error", "CSS rule missing selector")>>
            ELSE IF validateCssSelector(rule.selector) # ""
            THEN <<Issue("error", "Invalid CSS selector")>>
            ELSE <<>>
      [] rule.type = "label-led" ->
            (IF rule.labelTexts = <<>>
             THEN <<Issue("error", "Label-led rule missing labelTexts")>> ELSE <<>>)
            \o (IF rule.containerSelector # "" /\ validateCssSelector(rule.containerSelector) # ""
                THEN <<Issue("error", "Invalid container selector")>> ELSE <<>>)
      [] rule.type = "attribute" ->
            IF rule.attributeKey = ""
            THEN <<Issue("error", "Attribute rule missing attributeKey")>> ELSE <<>>
      [] OTHER -> <<>>

ScoreIssues(rule, missing) ==
    IF rule.score = Undefined THEN <<Issue("error", missing)>>
    ELSE IF rule.score < 0 \/ rule.score > 100
    THEN <<Issue("warning", "Score outside typical range")>>
    ELSE <<>>

validateContainerRule(rule) ==
    (IF rule.id = "" THEN <<Issue("error", "Container rule missing id")>> ELSE <<>>)
    \o (IF rule.type = "" THEN <<Issue("error", "Container rule missing type")>> ELSE <<>>)
    \o ContainerTypeIssues(rule)
    \o ScoreIssues(rule, "Container rule missing score")
    \o SelectorListIssues(rule.excludeSelectors, "Invalid exclude selector", 1)
    \o SelectorListIssues(rule.excludeAncestors, "Invalid ancestor selector", 1)

ValidTransforms == {"trim", "lowercase", "url-clean"}

validateFieldRule(rule) ==
    (IF rule.id = "" THEN <<Issue("error", "Field rule missing id")>> ELSE <<>>)
    \o (IF rule.field = "" THEN <<Issue("error", "Field rule missing field name")>> ELSE <<>>)
    \o (IF rule.selector = "" THEN <<Issue("error", "Field rule missing selector")>>
        ELSE IF validateCssSelector(rule.selector) # ""
        THEN <<Issue("error", "Invalid CSS selector")>>
        ELSE <<>>)
    \o ScoreIssues(rule, "Field rule missing score")
    \o (IF rule.transform # "" /\ rule.transform \notin ValidTransforms
        THEN <<Issue("warning", "Unknown transform")>> ELSE <<>>)

RECURSIVE ContainerRuleIssues(_, _)
ContainerRuleIssues(rules, i) ==
    IF i > Len(rules) THEN <<>>
    ELSE validateContainerRule(rules[i]) \o ContainerRuleIssues(rules, i + 1)

RECURSIVE FieldRuleIssues(_, _)
FieldRuleIssues(rules, i) ==
    IF i > Len(rules) THEN <<>>
    ELSE validateFieldRule(rules[i]) \o FieldRuleIssues(rules, i + 1)

RECURSIVE SumWeights(_)
SumWeights(validators) ==
    IF validators = <<>> THEN 0 ELSE validators[1].weight + SumWeights(Tail(validators))

\* Math.abs(totalWeight - 1.0) > 0.15, in hundredths
WeightTolerance == 15

ValidatorIssues(cfg) ==
    IF ~cfg.validatorsDefined THEN <<>>
    ELSE LET totalWeight == SumWeights(cfg.validators)
             off == IF totalWeight >= 100 THEN totalWeight - 100 ELSE 100 - totalWeight
         IN (IF off > WeightTolerance
             THEN <<Issue("warning", "Validator weights do not sum to 1.0")>> ELSE <<>>)
            \o (IF totalWeight = 0
                THEN <<Issue("error", "Validator weights sum to 0")>> ELSE <<>>)

ThresholdIssues(cfg) ==
    (IF cfg.minConfidence # Undefined
     THEN (IF cfg.minConfidence < 0 \/ cfg.minConfidence > 100
           THEN <<Issue("error", "minConfidence outside valid range")>> ELSE <<>>)
     ELSE <<Issue("warning", "minConfidence not set")>>)
    \o (IF cfg.containerScoreThreshold # Undefined
           /\ (cfg.containerScoreThreshold < 0 \/ cfg.containerScoreThreshold > 100)
        THEN <<Issue("error", "containerScoreThreshold outside valid range")>> ELSE <<>>)

CriticalFields == <<"advertiser", "destinationUrl">>

MissingExtractorWarning(field) == "No extractor for critical field: " \o field

RECURSIVE CriticalFieldIssues(_, _)
CriticalFieldIssues(cfg, i) ==
    IF i > Len(CriticalFields) THEN <<>>
    ELSE (IF \E k \in 1..Len(cfg.fieldRules) : cfg.fieldRules[k].field = CriticalFields[i]
          THEN <<>>
          ELSE <<Issue("warning", MissingExtractorWarning(CriticalFields[i]))>>)
         \o CriticalFieldIssues(cfg, i + 1)

\* Every issue validateConfig raises, in order of the checks.
ConfigIssues(cfg) ==
    (IF cfg.platform = "" THEN <<Issue("error", "Missing required field: platform")>>
     ELSE <<>>)
    \o (IF cfg.version = "" THEN <<Issue("warning", "Missing version field")>> ELSE <<>>)
    \o (IF cfg.containerRules = <<>>
        THEN <<Issue("error", "No container rules defined")>> ELSE <<>>)
    \o (IF cfg.fieldRules = <<>> THEN <<Issue("error", "No field rules defined")>> ELSE <<>>)
    \o ContainerRuleIssues(cfg.containerRules, 1)
    \o FieldRuleIssues(cfg.fieldRules, 1)
    \o ValidatorIssues(cfg)
    \o ThresholdIssues(cfg)
    \o CriticalFieldIssues(cfg, 1)

validateConfig(cfg) ==
    LET issues == ConfigIssues(cfg)
        errors == SelectSeq(issues, LAMBDA e : e.type = "error")
        warnings == SelectSeq(issues, LAMBDA e : e.type = "warning")
    IN [valid |-> Len(errors) = 0, errors |-> errors, warnings |-> warnings]

----------------------------------------------------------------------------
(* Documents and rule sets the engine is run on                            *)

El(parent, kind) ==
    [parent |-> parent, tag |-> kind.tag, cls |-> kind.cls, text |-> kind.text,
     dataAd |-> kind.dataAd, href |-> kind.href, src |-> kind.src, aria |-> kind.aria]

KPlain == [tag |-> "div", cls |-> "", text |-> <<>>, dataAd |-> "", href |-> "",
           src |-> "", aria |-> ""]
KBody == [KPlain EXCEPT !.tag = "body"]
KAd == [KPlain EXCEPT !.cls = "ad"]
KAdLabel == [KPlain EXCEPT !.cls = "ad", !.text = <<"Promoted">>]
KLabel == [KPlain EXCEPT !.tag = "span", !.text = <<"Promoted">>]
KName == [KPlain EXCEPT !.tag = "a", !.cls = "name", !.text = <<"Acme">>,
                        !.href = "https://acme.test/?utm_source=x"]
KNameBob == [KPlain EXCEPT !.tag = "a", !.cls = "name", !.text = <<"Bob">>,
                           !.href = "https://acme.test"]
KNameEmpty == [KPlain EXCEPT !.tag = "a", !.cls = "name", !.href = "/promo"]
KX == [KPlain EXCEPT !.cls = "x", !.text = <<"unpromoted">>]
KAttr == [KPlain EXCEPT !.dataAd = "true"]
KAria == [KPlain EXCEPT !.tag = "span", !.aria = "Promoted"]
KArticle == [KPlain EXCEPT !.tag = "article"]
KImg == [KPlain EXCEPT !.tag = "img", !.cls = "pic", !.src = "i.png"]

Kinds == {KPlain, KAd, KAdLabel, KLabel, KName, KNameBob, KNameEmpty, KX, KAttr, KAria,
          KArticle, KImg}

\* A container whose own text is the label, with the advertiser link in it.
Fixture1 == <<El(0, KBody), El(1, KAdLabel), El(2, KName), El(1, KAd), El(4, KLabel),
              El(4, KPlain)>>
\* Two advertiser links: the first one deeper, the second a sibling of the label.
Fixture2 == <<El(0, KBody), El(1, KAd), El(2, KPlain), El(3, KNameBob), El(2, KLabel),
              El(2, KName)>>
\* A promoted post, and a second container that holds an excluded element.
Fixture3 == <<El(0, KBody), El(1, KAd), El(2, KLabel), El(2, KName), El(1, KAd),
              El(5, KX)>>
\* Attribute and aria-label markers, and a container inside an excluded ancestor.
Fixture4 == <<El(0, KBody), El(1, KAttr), El(2, KAria), El(2, KName), El(1, KX),
              El(5, KAd)>>

Fixtures == {Fixture1, Fixture2, Fixture3, Fixture4}

\* The fixtures, and each fixture with one element replaced.
Variants(fixtures, kinds) ==
    fixtures \cup {[f EXCEPT ![n] = El(f[n].parent, k)] :
                      f \in fixtures, n \in {2, 3, 4, 5, 6}, k \in kinds}

\* The documents of the engine runs.
Docs == Variants(Fixtures, {KPlain, KAd, KLabel, KName, KX})

CssRule == [id |-> "css-ad", type |-> "css", selector |-> "ad", labelTexts |-> <<>>,
            containerSelector |-> "", attributeKey |-> "", attributeValue |-> "",
            score |-> 90, scopeSelector |-> "", excludeSelectors |-> <<>>,
            excludeIfContains |-> <<>>, excludeAncestors |-> <<>>]
LabelRule == [CssRule EXCEPT !.id = "label", !.type = "label-led", !.selector = "",
                             !.labelTexts = <<"Promoted">>, !.containerSelector = "ad",
                             !.score = 100]
AttrRule == [CssRule EXCEPT !.id = "attr", !.type = "attribute", !.selector = "",
                            !.attributeKey = "data-ad", !.attributeValue = "true",
                            !.score = 70]

ContainerRuleLists == {
    <<LabelRule>>,
    <<[CssRule EXCEPT !.excludeSelectors = <<"x">>], LabelRule>>,
    <<LabelRule, [CssRule EXCEPT !.excludeSelectors = <<"x">>]>>,
    <<[AttrRule EXCEPT !.excludeAncestors = <<"x">>], [CssRule EXCEPT !.score = 80]>>,
    <<[CssRule EXCEPT !.id = "bad", !.selector = "[[[", !.score = 100], CssRule>>,
    <<[CssRule EXCEPT !.excludeSelectors = <<"[[[", "x">>],
      [LabelRule EXCEPT !.id = "label-h", !.containerSelector = "", !.score = 90]>>,
    <<[CssRule EXCEPT !.id = "bad", !.scopeSelector = "[[["], AttrRule>>,
    <<[LabelRule EXCEPT !.id = "bad", !.containerSelector = "[[["], CssRule>>,
    <<[CssRule EXCEPT !.excludeAncestors = <<"[[[", "x">>],
      [AttrRule EXCEPT !.selector = "[[["]>>,
    <<[CssRule EXCEPT !.scopeSelector = "x", !.excludeIfContains = <<"promoted">>],
      [AttrRule EXCEPT !.attributeValue = ""]>> }

FieldRule(id, field, selector, attr, score, transform) ==
    [id |-> id, field |-> field, selector |-> selector, attr |-> attr, score |-> score,
     transform |-> transform]

BaseFieldRules == <<FieldRule("adv", "advertiser", "name", "", 100, ""),
                    FieldRule("url", "destinationUrl", "name", "href", 100, "url-clean"),
                    FieldRule("lbl", "label", "span", "", 90, "")>>

Validator(type, field, pattern, minLength, weight) ==
    [type |-> type, field |-> field, pattern |-> pattern, minLength |-> minLength,
     weight |-> weight]

RequireAdvertiser == <<Validator("required-field", "advertiser", "", Undefined, 100)>>
MixedValidators == <<Validator("required-field", "advertiser", "", Undefined, 50),
                     Validator("url-valid", "", "", Undefined, 30),
                     Validator("min-text-length", "advertiser", "", 4, 20)>>
BadPatternValidators == <<Validator("required-field", "advertiser", "", Undefined, 50),
                          Validator("label-pattern", "", "(", Undefined, 50)>>

Config(containerRules, fieldRules, validatorsDefined, validators, threshold, adaptive) ==
    [platform |-> "reddit", version |-> "2.1", containerRules |-> containerRules,
     fieldRules |-> fieldRules, validatorsDefined |-> validatorsDefined,
     validators |-> validators, minConfidence |-> 50,
     containerScoreThreshold |-> threshold, adaptiveThreshold |-> adaptive]

TwoRules == <<[CssRule EXCEPT !.excludeSelectors = <<"x">>], LabelRule>>

EngineConfigs ==
    {Config(l, BaseFieldRules, TRUE, RequireAdvertiser, Undefined, FALSE) :
        l \in ContainerRuleLists}
    \cup {Config(TwoRules, BaseFieldRules, TRUE, v, Undefined, a) :
            v \in {MixedValidators, BadPatternValidators}, a \in BOOLEAN}
    \cup {Config(TwoRules, BaseFieldRules, FALSE, <<>>, Undefined, TRUE),
          Config(<<AttrRule, CssRule>>, BaseFieldRules, TRUE, RequireAdvertiser, Undefined, TRUE)}

\* The values of minConfidence a pass is run with.
MinConfidences == {30, 80}

----------------------------------------------------------------------------
(* The engine as a state machine: the calls a host or a test makes         *)

\* Number of detectAds calls in a run.
MaxPasses == 2

NoVerdict == [valid |-> FALSE, errors |-> <<Issue("error", "not run")>>, warnings |-> <<>>]
NoExtraction == [container |-> 0, labelElement |-> 0, rules |-> <<>>,
                 fields |-> EmptyFields, extractions |-> <<>>]
\* No validateAdCandidate call was made yet.
NoValidation == [ran |-> FALSE, fields |-> EmptyFields, validators |-> <<>>,
                 minConfidence |-> 0,
                 result |-> [thrown |-> FALSE, valid |-> FALSE, confidence |-> <<0, 1>>,
                             reasons |-> <<>>]]
\* The rule ids the record operations are called with.
MetricRuleIds == {"css-ad", "adv"}
\* No collector was constructed yet, and chrome.storage holds no snapshot.
\* loading: the get of loadFromStorage was issued and its callback has not run;
\* issued: the metrics of the stored snapshot when the get was issued; storage:
\* the metrics of the stored snapshot; and the bookkeeping of the model (calls:
\* per rule id the record calls made since the storage was empty, how many
\* counted as validated, and the sum of their samples; pages: content scripts
\* started so far; raced: a record call was made while the get was pending;
\* here: per rule id the record calls made on the collector of this script;
\* unpruned: the metrics the last record call held before it saved them).
NoCollector ==
    [constructed |-> FALSE, loading |-> FALSE, issued |-> <<>>, storage |-> <<>>,
     calls |-> [id \in MetricRuleIds |-> [n |-> 0, v |-> 0, sum |-> <<0, 1>>]],
     pages |-> 0, raced |-> FALSE, here |-> [id \in MetricRuleIds |-> 0],
     unpruned |-> <<>>]
\* The content script has not run startDetection yet: the module state of the
\* plugin (observer, config, detectTimeout: FALSE and 0 stand for null), the
\* browser's pending timers, and the bookkeeping of the model (owed: a change
\* was notified and no pass has begun since; returned: the containers the
\* passes of the plugin have returned; mutations: changes of the page so far).
NoHost == [started |-> FALSE, activePlugin |-> FALSE, observer |-> FALSE, config |-> FALSE,
           detectTimeout |-> 0, timers |-> {}, nextTimer |-> 1, owed |-> FALSE,
           returned |-> {}, scanned |-> <<>>, mutations |-> 0,
           notified |-> 0]

\* A DetectionDebugInfo without entries.
NoDebugInfo == [thrown |-> FALSE, containerRules |-> <<>>, fieldAttempts |-> <<>>,
                validationDetails |-> <<>>, overallConfidence |-> <<0, 1>>, accepted |-> FALSE]
\* generateDebugInfo was not called yet.
NoDebug == [ran |-> FALSE, container |-> 0, info |-> NoDebugInfo]
\* The background service worker before its script has run: offscreenReady,
\* the offscreen document and the count of chrome.offscreen.createDocument
\* calls, recentAdIds in insertion order, the pending and the fired TTL
\* timers, the handlers in flight and the DB_SAVE messages sent.
NoRouter == [started |-> FALSE, offscreenReady |-> FALSE, document |-> FALSE,
             created |-> 0, recentAdIds |-> <<>>, timers |-> {}, fired |-> {},
             nextTimer |-> 1, tasks |-> <<>>, saved |-> <<>>]

\* The log with the entry appended, cut to its last two entries.
LastTwo(log, entry) ==
    SubSeq(Append(log, entry), IF Len(log) < 2 THEN 1 ELSE 2, Len(log) + 1)

Init ==
    /\ doc \in Docs
    /\ config \in EngineConfigs
    /\ seen = {}
    /\ metrics = <<>>
    /\ clock = 1
    /\ passes = 0
    /\ findLog = <<>>
    /\ passLog = <<>>
    /\ extraction = NoExtraction
    /\ verdict = NoVerdict
    /\ scored = NoValidation
    /\ collector = NoCollector
    /\ host = NoHost
    /\ debug = NoDebug
    /\ router = NoRouter

\* findAdContainers(config, document)
FindAdContainers ==
    /\ findLog' = LastTwo(findLog, findAdContainers(config, doc))
    /\ UNCHANGED <<doc, config, seen, metrics, clock, passes, passLog, extraction, verdict,
                   scored, collector, host, debug, router>>

\* The record of a detectAds call: its arguments and what it left behind
\* (result.seen: the set it was given, with the containers it visited;
\* result.metrics: the collector's metrics; result.candidates: what it returned).
PassRecord(cfg, seenBefore, r) == [cfg |-> cfg, seenBefore |-> seenBefore, result |-> r]

\* detectAds(config, seenContainers): a pass of the host with its shared set
DetectAds ==
    /\ passes < MaxPasses
    /\ passLog' = LastTwo(passLog, PassRecord(config, seen,
                                              detectAds(config, seen, doc, metrics, clock)))
    /\ seen' = passLog'[Len(passLog')].result.seen
    /\ metrics' = passLog'[Len(passLog')].result.metrics
    /\ clock' = clock + 1
    /\ passes' = passes + 1
    /\ UNCHANGED <<doc, config, findLog, extraction, verdict,
                   scored, collector, host, debug, router>>

\* detectAds(cfg) with the default argument, a fresh WeakSet, and a RuleSet
\* that differs from the loaded one in minConfidence at most
DetectAdsFresh(m) ==
    /\ passes < MaxPasses
    /\ passLog' = LastTwo(passLog, PassRecord([config EXCEPT !.minConfidence = m], {},
                              detectAds([config EXCEPT !.minConfidence = m], {}, doc,
                                        metrics, clock)))
    /\ metrics' = passLog'[Len(passLog')].result.metrics
    /\ clock' = clock + 1
    /\ passes' = passes + 1
    /\ UNCHANGED <<doc, config, seen, findLog, extraction, verdict,
                   scored, collector, host, debug, router>>

Next ==
    \/ FindAdContainers
    \/ DetectAds
    \/ \E m \in MinConfidences : DetectAdsFresh(m)

Spec == Init /\ [][Next]_vars

----------------------------------------------------------------------------
(* Field extraction on its own: extractFields called on a container        *)

\* The documents of the extraction runs: every kind of element in every place.
ExtractDocs == Variants(Fixtures, Kinds)

\* Chains of field rules: declared out of score order, with equal scores, with
\* selectors that match nothing or do not parse, with attributes and transforms.
FieldRuleLists == {
    BaseFieldRules,
    <<FieldRule("low", "advertiser", "span", "", 60, ""),
      FieldRule("top", "advertiser", "missing", "", 100, ""),
      FieldRule("mid", "advertiser", "name", "", 80, "")>>,
    <<FieldRule("top", "advertiser", "missing", "", 100, ""),
      FieldRule("mid", "advertiser", "name", "", 80, ""),
      FieldRule("lbl", "label", "span", "", 100, ""),
      FieldRule("low", "advertiser", "span", "", 60, "")>>,
    <<FieldRule("t1", "advertiser", "name", "", 80, "lowercase"),
      FieldRule("t2", "advertiser", "span", "", 80, ""),
      FieldRule("bad", "advertiser", "[[[", "", 100, "")>>,
    <<FieldRule("h1", "advertiserHandle", "x", "", 50, ""),
      FieldRule("url", "destinationUrl", "a", "href", 90, ""),
      FieldRule("h2", "advertiserHandle", "name", "", 90, ""),
      FieldRule("url2", "destinationUrl", "name", "href", 100, "url-clean"),
      FieldRule("img", "image", "pic", "", 100, "")>> }

ExtractConfigs ==
    {Config(TwoRules, l, TRUE, RequireAdvertiser, Undefined, FALSE) : l \in FieldRuleLists}

InitExtract ==
    /\ doc \in ExtractDocs
    /\ config \in ExtractConfigs
    /\ seen = {}
    /\ metrics = <<>>
    /\ clock = 1
    /\ passes = 0
    /\ findLog = <<>>
    /\ passLog = <<>>
    /\ extraction = NoExtraction
    /\ verdict = NoVerdict
    /\ scored = NoValidation
    /\ collector = NoCollector
    /\ host = NoHost
    /\ debug = NoDebug
    /\ router = NoRouter

\* The record of an extractFields call: its arguments and its result.
ExtractionRecord(container, labelElement, rules, r) ==
    [container |-> container, labelElement |-> labelElement, rules |-> rules,
     fields |-> r.fields, extractions |-> r.extractions]

\* extractFields(container, config.fieldRules, debug, context), called once on
\* the drawn inputs: the label element of the context, if any, lies in the
\* container.
ExtractFields(container, labelElement) ==
    /\ extraction = NoExtraction
    /\ labelElement \in {0} \cup Subtree(doc, container)
    /\ extraction' = ExtractionRecord(container, labelElement, config.fieldRules,
                           extractFields(doc, container, config.fieldRules, labelElement))
    /\ UNCHANGED <<doc, config, seen, metrics, clock, passes, findLog, passLog, verdict,
                   scored, collector, host, debug, router>>

NextExtract == \E container \in Nodes(doc), labelElement \in {0} \cup Nodes(doc) :
                   ExtractFields(container, labelElement)

SpecExtract == InitExtract /\ [][NextExtract]_vars

----------------------------------------------------------------------------
(* Config validation on its own: validateConfig called on a RuleSet        *)

\* Container rule lists with one defect each, and lists without defect.
ValidateRuleLists == {
    <<LabelRule>>,
    TwoRules,
    <<AttrRule, CssRule>>,
    <<[CssRule EXCEPT !.id = "bad", !.selector = "[[[", !.score = 100], CssRule>>,
    <<[CssRule EXCEPT !.excludeSelectors = <<"[[[", "x">>], LabelRule>>,
    <<[CssRule EXCEPT !.id = "bad", !.scopeSelector = "[[["], AttrRule>>,
    <<[LabelRule EXCEPT !.id = "bad", !.containerSelector = "[[["], CssRule>>,
    <<[CssRule EXCEPT !.excludeAncestors = <<"[[[", "x">>], AttrRule>>,
    <<[CssRule EXCEPT !.selector = ""], AttrRule>>,
    <<[AttrRule EXCEPT !.attributeKey = ""], [LabelRule EXCEPT !.labelTexts = <<>>]>>,
    <<[CssRule EXCEPT !.score = 120]>>,
    <<>> }

ValidateFieldRuleLists == FieldRuleLists \cup {
    <<FieldRule("adv", "advertiser", "name", "", 100, "")>>,
    <<FieldRule("url", "destinationUrl", "name", "href", 100, "upper")>>,
    <<FieldRule("adv", "advertiser", "name", "", 100, ""),
      FieldRule("lbl", "label", "span", "", Undefined, "")>> }

ValidateValidatorLists == {RequireAdvertiser, MixedValidators, BadPatternValidators,
    <<Validator("required-field", "advertiser", "", Undefined, 0)>>,
    <<Validator("required-field", "advertiser", "", Undefined, 50)>>}

ValidateConfigs ==
    {Config(c, f, TRUE, v, Undefined, FALSE) :
        c \in ValidateRuleLists, f \in ValidateFieldRuleLists, v \in ValidateValidatorLists}
    \cup {[Config(c, BaseFieldRules, FALSE, <<>>, t, TRUE) EXCEPT !.minConfidence = m] :
            c \in ValidateRuleLists, t \in {Undefined, 60, 150}, m \in {Undefined, 50, 120}}

InitValidate ==
    /\ doc = Fixture1
    /\ config \in ValidateConfigs
    /\ seen = {}
    /\ metrics = <<>>
    /\ clock = 1
    /\ passes = 0
    /\ findLog = <<>>
    /\ passLog = <<>>
    /\ extraction = NoExtraction
    /\ verdict = NoVerdict
    /\ scored = NoValidation
    /\ collector = NoCollector
    /\ host = NoHost
    /\ debug = NoDebug
    /\ router = NoRouter

\* validateConfig(config)
ValidateConfig ==
    /\ verdict' = validateConfig(config)
    /\ UNCHANGED <<doc, config, seen, metrics, clock, passes, findLog, passLog, extraction,
                   scored, collector, host, debug, router>>

NextValidate == ValidateConfig

SpecValidate == InitValidate /\ [][NextValidate]_vars

----------------------------------------------------------------------------
(* Container discovery on its own: findAdContainers under each threshold   *)

\* A label nested five levels below its container.
Fixture5 == <<El(0, KBody), El(1, KAd), El(2, KPlain), El(3, KPlain), El(4, KPlain),
              El(5, KPlain), El(6, KLabel)>>

FindDocs == Variants(Fixtures \cup {Fixture5}, {KPlain, KAd, KLabel, KX, KArticle})

\* Rules of low and high scores, and label-led rules with and without a
\* container selector.
FindRuleLists == {
    TwoRules,
    <<[CssRule EXCEPT !.score = 50], LabelRule>>,
    <<[AttrRule EXCEPT !.score = 20, !.attributeKey = "aria-label", !.attributeValue = ""],
      [CssRule EXCEPT !.score = 100], [CssRule EXCEPT !.id = "css-x", !.selector = "x",
                                                     !.score = 30]>>,
    <<[LabelRule EXCEPT !.id = "label-h", !.containerSelector = "", !.score = 90]>> }

\* Every way of choosing the threshold, for minConfidence from low to 1.0.
FindConfigs ==
    {[Config(l, BaseFieldRules, TRUE, RequireAdvertiser, t, a) EXCEPT !.minConfidence = m] :
        l \in FindRuleLists, t \in {Undefined, 0, 60}, a \in BOOLEAN, m \in {30, 50, 96, 100}}

InitFind ==
    /\ doc \in FindDocs
    /\ config \in FindConfigs
    /\ seen = {}
    /\ metrics = <<>>
    /\ clock = 1
    /\ passes = 0
    /\ findLog = <<>>
    /\ passLog = <<>>
    /\ extraction = NoExtraction
    /\ verdict = NoVerdict
    /\ scored = NoValidation
    /\ collector = NoCollector
    /\ host = NoHost
    /\ debug = NoDebug
    /\ router = NoRouter

NextFind == FindAdContainers

SpecFind == InitFind /\ [][NextFind]_vars

----------------------------------------------------------------------------
(* Validation on its own: validateAdCandidate called on extracted fields   *)

\* Field data as extractFields leaves it: values present, absent, short, and
\* URLs that parse, that do not, and of another protocol.
ScoreFields ==
    {[EmptyFields EXCEPT !["advertiser"] = a, !["destinationUrl"] = u, !["label"] = l,
                         !["images"] = i] :
        a \in {<<>>, <<"Acme">>, <<"Bob">>},
        u \in {<<>>, <<"https://acme.test/">>, <<"javascript:void(0)">>, <<"/promo">>},
        l \in {<<>>, <<"Promoted">>, <<"unpromoted">>},
        i \in {<<>>, <<"i.png">>}}

\* Validator lists: of every type, with partial credit, with validators the
\* switch skips, with weights that are zero, and one whose pattern throws.
\* Weights are non-negative.
ScoreValidatorLists == {
    <<>>,
    RequireAdvertiser,
    MixedValidators,
    BadPatternValidators,
    <<Validator("required-field", "", "", Undefined, 50),
      Validator("min-text-length", "advertiser", "", 4, 50)>>,
    <<Validator("custom", "advertiser", "", Undefined, 30),
      Validator("label-pattern", "", "Promoted", Undefined, 70)>>,
    <<Validator("min-text-length", "advertiser", "", Undefined, 40),
      Validator("label-pattern", "", "", Undefined, 20),
      Validator("url-valid", "", "", Undefined, 40)>>,
    <<Validator("min-text-length", "image", "", 3, 50),
      Validator("min-text-length", "advertiser", "", 0, 50)>>,
    <<Validator("required-field", "advertiser", "", Undefined, 0),
      Validator("url-valid", "", "", Undefined, 0)>> }

InitScore ==
    /\ doc = Fixture1
    /\ config = Config(TwoRules, BaseFieldRules, TRUE, RequireAdvertiser, Undefined, FALSE)
    /\ seen = {}
    /\ metrics = <<>>
    /\ clock = 1
    /\ passes = 0
    /\ findLog = <<>>
    /\ passLog = <<>>
    /\ extraction = NoExtraction
    /\ verdict = NoVerdict
    /\ scored = NoValidation
    /\ collector = NoCollector
    /\ host = NoHost
    /\ debug = NoDebug
    /\ router = NoRouter

\* validateAdCandidate(fields, validators, minConfidence), called once
ValidateAdCandidate(fields, validators, minConfidence) ==
    /\ ~scored.ran
    /\ scored' = [ran |-> TRUE, fields |-> fields, validators |-> validators,
                  minConfidence |-> minConfidence,
                  result |-> validateAdCandidate(fields, validators, minConfidence)]
    /\ UNCHANGED <<doc, config, seen, metrics, clock, passes, findLog, passLog, extraction,
                   verdict, collector, host, debug, router>>

NextScore ==
    \E fields \in ScoreFields, validators \in ScoreValidatorLists,
       minConfidence \in MinConfidences :
        ValidateAdCandidate(fields, validators, minConfidence)

SpecScore == InitScore /\ [][NextScore]_vars

----------------------------------------------------------------------------
(* The host: the content script (index.ts) and a platform plugin           *)

\* Number of changes the page makes to the document in a run.
MaxMutations == 2
\* Number of elements a document grows to.
MaxNodes == 8

\* Mutant: a timer is started for every notification.
throttledDetectUnguarded(h) ==
    [h EXCEPT !.detectTimeout = h.nextTimer, !.timers = h.timers \cup {h.nextTimer},
              !.nextTimer = h.nextTimer + 1]

\* if (detectTimeout) return; detectTimeout = window.setTimeout(..., 500)
throttledDetect(h) ==
    IF h.detectTimeout # 0 THEN h
    ELSE [h EXCEPT !.detectTimeout = h.nextTimer, !.timers = h.timers \cup {h.nextTimer},
                   !.nextTimer = h.nextTimer + 1]

\* Mutant: teardown only disconnects the observer.
teardownDisconnectOnly(h) == [h EXCEPT !.observer = FALSE]

\* teardown(): disconnect the observer, clear the pending timer, drop the config
teardown(h) ==
    [h EXCEPT !.observer = FALSE,
              !.timers = IF h.detectTimeout # 0 THEN h.timers \ {h.detectTimeout}
                         ELSE h.timers,
              !.detectTimeout = 0,
              !.config = FALSE]

\* The containers of a list of candidates.
Containers(candidates) == {candidates[k].container : k \in 1..Len(candidates)}

\* detectRedditAds() with a config: detectAds(config, seenContainers) inside a
\* try; what detectAds did before an exception stays done.
detectRedditAds ==
    /\ passLog' = LastTwo(passLog, PassRecord(config, seen,
                                              detectAds(config, seen, doc, metrics, clock)))
    /\ seen' = passLog'[Len(passLog')].result.seen
    /\ metrics' = passLog'[Len(passLog')].result.metrics
    /\ clock' = clock + 1
    /\ passes' = passes + 1

\* The host after a pass: the pass has begun, its candidates were sent.
AfterPass(h, log) ==
    [h EXCEPT !.owed = FALSE, !.scanned = doc,
              !.returned = h.returned \cup Containers(log[Len(log)].result.candidates)]

\* The page's changes of the child lists: an element appended as the last child
\* of an element on the path to the last element, or a change that was undone.
Mutations(d) ==
    {d} \cup {Append(d, El(parent, kind)) :
                 parent \in {n \in Nodes(d) : Len(d) < MaxNodes /\ IsAncestorOrSelf(d, n, Len(d))},
                 kind \in {KAdLabel, KName}}

\* The RuleSets loadConfig returns: without issues, with warnings only, with
\* errors, and one whose validator throws.
HostConfigs ==
    {Config(TwoRules, BaseFieldRules, TRUE, RequireAdvertiser, Undefined, FALSE),
     Config(TwoRules, <<BaseFieldRules[1], BaseFieldRules[3]>>, TRUE, RequireAdvertiser,
            Undefined, FALSE),
     Config(<<[CssRule EXCEPT !.id = "bad", !.selector = "[[[", !.score = 100], CssRule>>,
            BaseFieldRules, TRUE, RequireAdvertiser, Undefined, FALSE),
     Config(TwoRules, BaseFieldRules, TRUE, BadPatternValidators, Undefined, FALSE)}

InitHost ==
    /\ doc \in {Fixture1, Fixture3}
    /\ config \in HostConfigs
    /\ seen = {}
    /\ metrics = <<>>
    /\ clock = 1
    /\ passes = 0
    /\ findLog = <<>>
    /\ passLog = <<>>
    /\ extraction = NoExtraction
    /\ verdict = NoVerdict
    /\ scored = NoValidation
    /\ collector = NoCollector
    /\ host = NoHost
    /\ debug = NoDebug
    /\ router = NoRouter

\* startDetection(): loadConfig, createPlugin, plugin.init(config); init starts
\* the observer and runs the initial detection.
StartDetection ==
    /\ ~host.started
    /\ detectRedditAds
    /\ host' = AfterPass([host EXCEPT !.started = TRUE, !.activePlugin = TRUE,
                                      !.observer = TRUE, !.config = TRUE], passLog')
    /\ UNCHANGED <<doc, config, findLog, extraction, verdict, scored, collector, debug, router>>

\* The page changes the document; the observer, if connected, is notified and
\* calls throttledDetect.
Mutate ==
    /\ host.mutations < MaxMutations
    /\ doc' \in Mutations(doc)
    /\ host' = IF host.observer
               THEN [throttledDetect(host) EXCEPT !.owed = TRUE,
                                                  !.mutations = host.mutations + 1,
                                                  !.notified = host.notified + 1]
               ELSE [host EXCEPT !.mutations = host.mutations + 1]
    /\ UNCHANGED <<config, seen, metrics, clock, passes, findLog, passLog, extraction,
                   verdict, scored, collector, debug, router>>

\* A pending timer fires: detectRedditAds(); detectTimeout = null
TimerFires ==
    /\ host.timers # {}
    /\ host.config
    /\ detectRedditAds
    /\ \E t \in host.timers :
          host' = AfterPass([host EXCEPT !.timers = host.timers \ {t}, !.detectTimeout = 0],
                            passLog')
    /\ UNCHANGED <<doc, config, findLog, extraction, verdict, scored, collector, debug, router>>

\* stopDetection() on beforeunload: teardown of the active plugin
StopDetection ==
    /\ host.activePlugin
    /\ host' = [teardown(host) EXCEPT !.activePlugin = FALSE]
    /\ UNCHANGED <<doc, config, seen, metrics, clock, passes, findLog, passLog, extraction,
                   verdict, scored, collector, debug, router>>

NextHost == StartDetection \/ Mutate \/ TimerFires \/ StopDetection

SpecHost == InitHost /\ [][NextHost]_vars

\* The step of TimerFires, told by what it needs and by the count of passes: the
\* only other step that runs a pass is StartDetection, before any timer.
TimerStep == host.timers # {} /\ host.config /\ passes' = passes + 1

\* Timers that are due fire.
SpecHostLive == SpecHost /\ WF_passes(TimerStep)

----------------------------------------------------------------------------
(* The metrics collector of a content script and chrome.storage            *)

\* Number of content scripts started, each with its own collector.
MaxPages == 2
\* Number of record calls made.
MaxCalls == 3

\* Confidences and field scores (in hundredths) recorded.
MetricSamples == {<<1, 2>>, <<1, 1>>}
MetricScores == {50, 100}

\* The callback of loadFromStorage: this.metrics.set(metric.ruleId, metric) for
\* every metric of the snapshot.
loadFromStorage(m, data) ==
    [id \in DOMAIN m \cup DOMAIN data |-> IF id \in DOMAIN data THEN data[id] ELSE m[id]]

\* The calls made so far, with one more for the rule id.
Called(calls, ruleId, counted, sample) ==
    [calls EXCEPT ![ruleId] = [n |-> calls[ruleId].n + 1,
                               v |-> calls[ruleId].v + (IF counted THEN 1 ELSE 0),
                               sum |-> Norm(RAdd(calls[ruleId].sum, sample))]]

\* saveToStorage() after a record call: the snapshot of the metrics is stored.
\* pruneMetrics acts on more than 1000 metrics only.
Saved(c, m, ruleId, counted, sample) ==
    [c EXCEPT !.storage = m, !.calls = Called(c.calls, ruleId, counted, sample),
              !.raced = c.raced \/ c.loading, !.unpruned = m,
              !.here = [c.here EXCEPT ![ruleId] = c.here[ruleId] + 1]]

InitMetrics ==
    /\ doc = Fixture1
    /\ config \in {Config(TwoRules, BaseFieldRules, TRUE, RequireAdvertiser, Undefined, FALSE)}
    /\ seen = {}
    /\ metrics = <<>>
    /\ clock = 1
    /\ passes = 0
    /\ findLog = <<>>
    /\ passLog = <<>>
    /\ extraction = NoExtraction
    /\ verdict = NoVerdict
    /\ scored = NoValidation
    /\ collector = NoCollector
    /\ host = NoHost
    /\ debug = NoDebug
    /\ router = NoRouter

CallsMade == collector.calls["css-ad"].n + collector.calls["adv"].n

\* getMetricsCollector() in a content script that has no collector yet: new
\* SelectorMetricsCollector() with an empty map, whose constructor issues the
\* get of loadFromStorage.
GetMetricsCollector ==
    /\ collector.pages < MaxPages
    /\ metrics' = <<>>
    /\ collector' = [collector EXCEPT !.constructed = TRUE, !.loading = TRUE,
                                      !.issued = collector.storage,
                                      !.pages = collector.pages + 1,
                                      !.here = [id \in MetricRuleIds |-> 0]]
    /\ UNCHANGED <<doc, config, seen, clock, passes, findLog, passLog, extraction, verdict,
                   scored, host, debug, router>>

\* The callback of chrome.storage.local.get runs, with the snapshot as it was
\* stored when the get was issued or as it is stored now.
StorageLoaded ==
    /\ collector.loading
    /\ \E data \in {collector.issued, collector.storage} :
           metrics' = loadFromStorage(metrics, data)
    /\ collector' = [collector EXCEPT !.loading = FALSE]
    /\ UNCHANGED <<doc, config, seen, clock, passes, findLog, passLog, extraction, verdict,
                   scored, host, debug, router>>

RecordContainerMatch(ruleId, validated, confidence) ==
    /\ collector.constructed
    /\ CallsMade < MaxCalls
    /\ metrics' = recordContainerMatch(metrics, ruleId, validated, confidence, clock)
    /\ collector' = Saved(collector, metrics', ruleId, validated, confidence)
    /\ clock' = clock + 1
    /\ UNCHANGED <<doc, config, seen, passes, findLog, passLog, extraction, verdict, scored,
                   host, debug, router>>

RecordFieldMatch(ruleId, found, score) ==
    /\ collector.constructed
    /\ CallsMade < MaxCalls
    /\ metrics' = recordFieldMatch(metrics, ruleId, found, score, clock)
    /\ collector' = Saved(collector, metrics', ruleId, found, <<score, 100>>)
    /\ clock' = clock + 1
    /\ UNCHANGED <<doc, config, seen, passes, findLog, passLog, extraction, verdict, scored,
                   host, debug, router>>

NextMetrics ==
    \/ GetMetricsCollector
    \/ StorageLoaded
    \/ \E ruleId \in MetricRuleIds, validated \in BOOLEAN, confidence \in MetricSamples :
           RecordContainerMatch(ruleId, validated, confidence)
    \/ \E ruleId \in MetricRuleIds, found \in BOOLEAN, score \in MetricScores :
           RecordFieldMatch(ruleId, found, score)

SpecMetrics == InitMetrics /\ [][NextMetrics]_vars

----------------------------------------------------------------------------
(* The debug interface (detector.ts, generateDebugInfo)                    *)

\* One entry of containerRules: executeContainerRule inside a try whose catch
\* ignores the error.
DebugContainerRule(d, container, rule, r) ==
    [ruleId |-> rule.id,
     matched |-> ~r.thrown /\ \E k \in 1..Len(r.matches) : r.matches[k].container = container,
     score |-> IF ~r.thrown /\ \E k \in 1..Len(r.matches) : r.matches[k].container = container
               THEN rule.score ELSE Undefined]

\* The value an attempt reads: the attribute or the text of the element.
DebugValue(d, rule, element) ==
    IF element = 0 THEN <<>>
    ELSE IF rule.attr # ""
    THEN (IF GetAttribute(d, element, rule.attr) = "" THEN <<>>
          ELSE <<GetAttribute(d, element, rule.attr)>>)
    ELSE TextContent(d, element)

\* One attempt: container.querySelector(rule.selector), then the value.
DebugAttempt(d, container, rule) ==
    [ruleId |-> rule.id, selector |-> rule.selector,
     found |-> DebugValue(d, rule, QuerySelector(d, container, rule.selector)) # <<>>,
     value |-> DebugValue(d, rule, QuerySelector(d, container, rule.selector))]

DebugAttempts(d, container, rules) ==
    [i \in 1..Len(rules) |-> DebugAttempt(d, container, rules[i])]

\* attempts.find(a => a.found)?.value
DebugFinalValue(attempts) ==
    IF \A i \in 1..Len(attempts) : ~attempts[i].found THEN <<>>
    ELSE attempts[SetMin({i \in 1..Len(attempts) : attempts[i].found})].value

\* fieldAttempts: one entry per field, in the order of the map, its rules in
\* the order of their declaration.
DebugFieldAttempts(d, container, rules, order) ==
    [k \in 1..Len(order) |->
        [field |-> order[k],
         attempts |-> DebugAttempts(d, container, rulesByField(rules, order[k])),
         finalValue |-> DebugFinalValue(DebugAttempts(d, container,
                                                      rulesByField(rules, order[k])))]]

\* message.includes('Missing') || message.includes('below')
MessageTellsFailure(message) ==
    message \in {"Missing required field", "Missing advertiser", "Missing destination URL",
                 "Missing ad label", "Confidence below threshold"}

\* validation.reasons.map((message, i) => ...): the i-th reason is paired with
\* the i-th validator of the config.
DebugValidationDetails(cfg, reasons) ==
    [i \in 1..Len(reasons) |->
        [validator |-> IF cfg.validatorsDefined /\ i <= Len(cfg.validators)
                       THEN cfg.validators[i].type ELSE "default",
         passed |-> ~MessageTellsFailure(reasons[i]),
         weight |-> IF cfg.validatorsDefined /\ i <= Len(cfg.validators)
                    THEN cfg.validators[i].weight ELSE 0,
         message |-> reasons[i]]]

\* The result once the fields were validated; a validator that throws makes the
\* call throw.
DebugInfoOf(d, container, cfg, validation) ==
    IF validation.thrown THEN [NoDebugInfo EXCEPT !.thrown = TRUE]
    ELSE [thrown |-> FALSE,
          containerRules |->
              [i \in 1..Len(cfg.containerRules) |->
                  DebugContainerRule(d, container, cfg.containerRules[i],
                                     executeContainerRule(d, cfg.containerRules[i]))],
          fieldAttempts |-> DebugFieldAttempts(d, container, cfg.fieldRules,
                                               FieldOrder(cfg.fieldRules, 1, <<>>)),
          validationDetails |-> DebugValidationDetails(cfg, validation.reasons),
          overallConfidence |-> validation.confidence,
          accepted |-> validation.valid]

\* querySelector of an attempt is outside any try: a selector that does not
\* parse makes the call throw.
generateDebugInfo(d, container, cfg) ==
    IF \E i \in 1..Len(cfg.fieldRules) :
           ~ParsesAsSelector(cfg.fieldRules[i].selector) \/ cfg.fieldRules[i].selector = ""
    THEN [NoDebugInfo EXCEPT !.thrown = TRUE]
    ELSE DebugInfoOf(d, container, cfg,
                     Validate(cfg, extractFields(d, container, cfg.fieldRules, 0).fields))

\* Field rules declared in the order of their scores, without transforms.
PlainFieldRules == <<FieldRule("adv", "advertiser", "name", "", 100, ""),
                     FieldRule("adv2", "advertiser", "span", "", 60, ""),
                     FieldRule("url", "destinationUrl", "name", "href", 100, "")>>

DebugConfigs ==
    {Config(TwoRules, f, TRUE, v, Undefined, FALSE) :
        f \in FieldRuleLists \cup {PlainFieldRules}, v \in ScoreValidatorLists}
    \cup {Config(TwoRules, BaseFieldRules, FALSE, <<>>, Undefined, FALSE)}

InitDebug ==
    /\ doc \in Fixtures
    /\ config \in DebugConfigs
    /\ seen = {}
    /\ metrics = <<>>
    /\ clock = 1
    /\ passes = 0
    /\ findLog = <<>>
    /\ passLog = <<>>
    /\ extraction = NoExtraction
    /\ verdict = NoVerdict
    /\ scored = NoValidation
    /\ collector = NoCollector
    /\ host = NoHost
    /\ debug = NoDebug
    /\ router = NoRouter

\* generateDebugInfo(container, config)
GenerateDebugInfo(container) ==
    /\ ~debug.ran
    /\ debug' = [ran |-> TRUE, container |-> container,
                 info |-> generateDebugInfo(doc, container, config)]
    /\ UNCHANGED <<doc, config, seen, metrics, clock, passes, findLog, passLog, extraction,
                   verdict, scored, collector, host, router>>

NextDebug == \E container \in Nodes(doc) : GenerateDebugInfo(container)

SpecDebug == InitDebug /\ [][NextDebug]_vars

----------------------------------------------------------------------------
(* The metrics collector at its capacity (pruneMetrics, saveToStorage)     *)

\* maxStoredDetections, 1000 in the source.
maxStoredDetections == 2
\* Number of record calls made at capacity.
MaxPruneCalls == 2

PruneRuleIds == {"r1", "r2", "r3"}

\* Metrics loaded from storage: usage, and the time of the last use.
StoredMetrics ==
    {[ruleType |-> "container", timesMatched |-> n, timesValidated |-> 0,
      averageConfidence |-> <<1, 2>>, lastUsed |-> t, successRate |-> <<0, 1>>] :
        n \in {8, 16, 30}, t \in {1, 2}}

Orderings(S) ==
    {p \in [1..Cardinality(S) -> S] : \A i, j \in 1..Cardinality(S) : p[i] = p[j] => i = j}

\* The comparator of pruneMetrics: negative when a is to come before b.
PruneCompare(a, b) ==
    IF a.timesMatched - b.timesMatched > 10 \/ b.timesMatched - a.timesMatched > 10
    THEN b.timesMatched - a.timesMatched
    ELSE b.lastUsed - a.lastUsed

\* The orders in which allMetrics.sort can leave the metrics: an order that
\* agrees with the comparator on every pair when there is one (equal entries in
\* either order: the map of the model has no insertion order), and any order
\* when the comparator is not consistent on the metrics.
SortOutcomes(m) ==
    IF \E p \in Orderings(DOMAIN m) :
           \A i, j \in 1..Len(p) : i < j => PruneCompare(m[p[i]], m[p[j]]) <= 0
    THEN {p \in Orderings(DOMAIN m) :
             \A i, j \in 1..Len(p) : i < j => PruneCompare(m[p[i]], m[p[j]]) <= 0}
    ELSE Orderings(DOMAIN m)

\* this.metrics.clear(); then set for sorted.slice(0, maxStoredDetections)
KeepTop(m, sorted) == [id \in {sorted[i] : i \in 1..maxStoredDetections} |-> m[id]]

\* What pruneMetrics can leave of the metrics.
pruneMetrics(m) ==
    IF Cardinality(DOMAIN m) > maxStoredDetections
    THEN {KeepTop(m, sorted) : sorted \in SortOutcomes(m)}
    ELSE {m}

\* saveToStorage(): the snapshot is stored; if (Math.random() < 0.1)
\* pruneMetrics(), which stores the snapshot again when it pruned.
saveToStorage(m, random) == IF random THEN pruneMetrics(m) ELSE {m}

InitPrune ==
    /\ doc = Fixture1
    /\ config \in {Config(TwoRules, BaseFieldRules, TRUE, RequireAdvertiser, Undefined, FALSE)}
    /\ seen = {}
    /\ metrics \in UNION {[ids -> StoredMetrics] :
                              ids \in {i \in SUBSET PruneRuleIds :
                                          Cardinality(i) = maxStoredDetections}}
    /\ clock = 3
    /\ passes = 0
    /\ findLog = <<>>
    /\ passLog = <<>>
    /\ extraction = NoExtraction
    /\ verdict = NoVerdict
    /\ scored = NoValidation
    /\ collector = [NoCollector EXCEPT !.constructed = TRUE, !.storage = metrics]
    /\ host = NoHost
    /\ debug = NoDebug
    /\ router = NoRouter

\* recordContainerMatch or recordFieldMatch on a collector at its capacity.
RecordAtCapacity(ruleId, ruleType, counted, sample, random) ==
    /\ clock < 3 + MaxPruneCalls
    /\ metrics' \in saveToStorage(RecordMatch(metrics, ruleId, ruleType, counted, sample, clock),
                                  random)
    /\ collector' = [collector EXCEPT
                        !.storage = metrics',
                        !.unpruned = RecordMatch(metrics, ruleId, ruleType, counted, sample,
                                                 clock)]
    /\ clock' = clock + 1
    /\ UNCHANGED <<doc, config, seen, passes, findLog, passLog, extraction, verdict, scored,
                   host, debug, router>>

NextPrune ==
    \E ruleId \in PruneRuleIds, ruleType \in {"container", "field"}, counted \in BOOLEAN,
       random \in BOOLEAN :
        RecordAtCapacity(ruleId, ruleType, counted, <<1, 1>>, random)

SpecPrune == InitPrune /\ [][NextPrune]_vars

----------------------------------------------------------------------------
(* Properties of container discovery (findAdContainers)                    *)

FindRan == Len(findLog) > 0
LastFound == findLog[Len(findLog)]
RuleIndices == 1..Len(config.containerRules)
RuleAt(i) == config.containerRules[i]

\* A match carries the id of its rule; aria-label matches carry id-aria.
FromRule(m, rule) == m.ruleId = rule.id \/ m.ruleId = rule.id \o "-aria"

\* The nodes that meet the positive criterion of a rule within its scope.
PositiveNodes(rule) ==
    LET scope == RuleScope(doc, rule)
    IN IF scope.thrown \/ scope.value = 0 THEN {}
       ELSE LET found == RuleStrategy(doc, rule, scope.value)
            IN IF found.thrown THEN {}
               ELSE {found.matches[k].container : k \in 1..Len(found.matches)}

\* n or one of its descendants matches an entry of the rule's excludeSelectors.
MatchesExcludeEntry(n, rule) ==
    \E e \in Range(rule.excludeSelectors) : \E m \in Subtree(doc, n) : Matches(doc, m, e)

ReturnedFor(n, rule) ==
    \E k \in 1..Len(LastFound) : LastFound[k].container = n /\ FromRule(LastFound[k], rule)

Thm_C2_ExcludeExclusive ==
    FindRan => \A i \in RuleIndices :
        LET positive == PositiveNodes(RuleAt(i))
        IN \A n \in positive :
               MatchesExcludeEntry(n, RuleAt(i)) => ~ReturnedFor(n, RuleAt(i))

\* A rule excludes a node through a descendant and returns another node.
Wit_C2_Excluded ==
    /\ FindRan
    /\ \E i \in RuleIndices : \E n, other \in Nodes(doc) :
        /\ n \in PositiveNodes(RuleAt(i))
        /\ ~\E e \in Range(RuleAt(i).excludeSelectors) : Matches(doc, n, e)
        /\ MatchesExcludeEntry(n, RuleAt(i))
        /\ ReturnedFor(other, RuleAt(i))

\* The matches a rule hands to the deduplication.
RawOfRule(i) ==
    LET r == executeContainerRule(doc, RuleAt(i))
    IN IF r.thrown THEN <<>> ELSE r.matches

\* The matches the rules produced, each with the index of its rule.
RawPairs ==
    UNION {LET r == RawOfRule(i) IN {<<i, r[k]>> : k \in 1..Len(r)} : i \in RuleIndices}

\* C8: no node is returned twice; the match returned for a node has the highest
\* score the rules produced for it, and among equal scores it is the match of
\* the rule declared first.
Thm_C8_DedupKeepsBest ==
    FindRan =>
        /\ \A j, k \in 1..Len(LastFound) :
               j # k => LastFound[j].container # LastFound[k].container
        /\ LET pairs == RawPairs
           IN \A k \in 1..Len(LastFound) :
                  \E p \in pairs :
                      /\ p[2] = LastFound[k]
                      /\ \A q \in pairs :
                             q[2].container = p[2].container =>
                                 /\ q[2].score <= p[2].score
                                 /\ q[2].score = p[2].score => p[1] <= q[1]

\* Two rules gave a returned node the same score.
Wit_C8_Tie ==
    /\ FindRan
    /\ LET pairs == RawPairs
       IN \E k \in 1..Len(LastFound) : \E p, q \in pairs :
              /\ p[2] = LastFound[k]
              /\ q[2].container = p[2].container
              /\ p[1] < q[1]
              /\ p[2].score = q[2].score

\* The rule carries an unparseable selector in one of its selector fields.
HasUnparseableSelector(rule) ==
    \/ ~ParsesAsSelector(rule.selector)
    \/ ~ParsesAsSelector(rule.scopeSelector)
    \/ ~ParsesAsSelector(rule.containerSelector)
    \/ \E e \in Range(rule.excludeSelectors) \cup Range(rule.excludeAncestors) :
           ~ParsesAsSelector(e)

\* The unparseable selector is in a field the rule's strategy evaluates: the
\* scope of any rule, the selector of a css rule, the containerSelector of a
\* label-led rule.
HasUnparseableStrategySelector(rule) ==
    \/ ~ParsesAsSelector(rule.scopeSelector)
    \/ rule.type = "css" /\ ~ParsesAsSelector(rule.selector)
    \/ rule.type = "label-led" /\ ~ParsesAsSelector(rule.containerSelector)

HasUnparseableExcludeEntry(rule) ==
    \E e \in Range(rule.excludeSelectors) \cup Range(rule.excludeAncestors) :
        ~ParsesAsSelector(e)

\* The RuleSet without its i-th container rule.
WithoutRule(i) ==
    [config EXCEPT !.containerRules =
        SubSeq(config.containerRules, 1, i - 1)
            \o SubSeq(config.containerRules, i + 1, Len(config.containerRules))]

\* The RuleSet with the unparseable exclude entries of its i-th rule removed.
WithoutUnparseableEntries(i) ==
    [config EXCEPT !.containerRules[i].excludeSelectors =
                       SelectSeq(@, LAMBDA e : ParsesAsSelector(e)),
                   !.containerRules[i].excludeAncestors =
                       SelectSeq(@, LAMBDA e : ParsesAsSelector(e))]

ContributesNothing(i) ==
    /\ \A k \in 1..Len(LastFound) : ~FromRule(LastFound[k], RuleAt(i))
    /\ LastFound = findAdContainers(WithoutRule(i), doc)

\* C10 as stated: a rule with an unparseable selector in any selector field
\* contributes no match, and the result is what the other rules alone give.
Orig_C10_AnyFieldSilencesRule ==
    FindRan => \A i \in RuleIndices :
        HasUnparseableSelector(RuleAt(i)) => ContributesNothing(i)

\* C10, amended: a rule whose scopeSelector, css selector or label-led
\* containerSelector does not parse contributes no match and the result is what
\* the other rules alone give; an unparseable excludeSelectors or
\* excludeAncestors entry is skipped, and the result is what the RuleSet gives
\* without that entry.
Thm_C10_BrokenRuleIsolated ==
    FindRan => \A i \in RuleIndices :
        /\ HasUnparseableStrategySelector(RuleAt(i)) => ContributesNothing(i)
        /\ HasUnparseableExcludeEntry(RuleAt(i)) =>
               LastFound = findAdContainers(WithoutUnparseableEntries(i), doc)

\* A rule with an unparseable selector ran next to a rule that returned matches.
Wit_C10_OthersStillMatch ==
    /\ FindRan
    /\ LastFound # <<>>
    /\ \E i \in RuleIndices :
           /\ HasUnparseableStrategySelector(RuleAt(i))
           /\ PositiveNodes([RuleAt(i) EXCEPT !.selector = "ad", !.scopeSelector = "",
                                              !.containerSelector = "ad"]) # {}

----------------------------------------------------------------------------
(* Properties of a detection pass (detectAds)                              *)

PassRan == Len(passLog) > 0
LastPass == passLog[Len(passLog)]

CandidateFor(p, n) ==
    \E k \in 1..Len(p.result.candidates) : p.result.candidates[k].container = n

\* The validation of the fields extracted from a container match.
ValidationOf(cfg, m) ==
    Validate(cfg, extractFields(doc, m.container, cfg.fieldRules, m.labelElement).fields)

\* C4: of two passes on the same tree, each with a fresh seen set, under
\* RuleSets that differ in minConfidence only, the pass with the higher
\* minConfidence never returns more candidates.
Thm_C4_ThresholdMonotone ==
    Len(passLog) = 2 =>
        LET a == passLog[1]
            b == passLog[2]
        IN (/\ a.seenBefore = {} /\ b.seenBefore = {}
            /\ ~a.result.thrown /\ ~b.result.thrown
            /\ [a.cfg EXCEPT !.minConfidence = b.cfg.minConfidence] = b.cfg)
           => /\ a.cfg.minConfidence <= b.cfg.minConfidence
                    => Len(b.result.candidates) <= Len(a.result.candidates)
              /\ b.cfg.minConfidence <= a.cfg.minConfidence
                    => Len(a.result.candidates) <= Len(b.result.candidates)

\* Under an adaptive threshold, raising minConfidence lost candidates but not all.
Wit_C4_FewerCandidates ==
    /\ Len(passLog) = 2
    /\ passLog[1].seenBefore = {} /\ passLog[2].seenBefore = {}
    /\ ~passLog[1].result.thrown /\ ~passLog[2].result.thrown
    /\ config.adaptiveThreshold
    /\ passLog[1].cfg.minConfidence < passLog[2].cfg.minConfidence
    /\ Len(passLog[2].result.candidates) < Len(passLog[1].result.candidates)

\* C7: a pass returns a candidate for a detected container that was not seen
\* before exactly if the confidence of its validation is at least minConfidence;
\* every candidate is valid with such a confidence; a container without
\* advertiser under the single validator required-field(advertiser) has
\* confidence 0 and gives no candidate.
Thm_C7_AcceptIffConfident ==
    (PassRan /\ ~LastPass.result.thrown) =>
        LET p == LastPass
            found == findAdContainers(p.cfg, doc)
        IN /\ \A k \in 1..Len(found) :
                  found[k].container \notin p.seenBefore =>
                      LET v == ValidationOf(p.cfg, found[k])
                      IN /\ CandidateFor(p, found[k].container)
                             <=> RLeq(<<p.cfg.minConfidence, 100>>, v.confidence)
                         /\ (/\ p.cfg.validators = RequireAdvertiser
                             /\ p.cfg.validatorsDefined
                             /\ extractFields(doc, found[k].container, p.cfg.fieldRules,
                                              found[k].labelElement).fields["advertiser"] = <<>>)
                            => /\ v.confidence[1] = 0
                               /\ ~CandidateFor(p, found[k].container)
           /\ \A k \in 1..Len(p.result.candidates) :
                  /\ p.result.candidates[k].validation.valid
                  /\ RLeq(<<p.cfg.minConfidence, 100>>, p.result.candidates[k].validation.confidence)
                  /\ p.result.candidates[k].container \notin p.seenBefore
                  /\ \E j \in 1..Len(found) : found[j] = p.result.candidates[k].containerMatch

\* A pass at minConfidence 0.5 took one container and rejected another that
\* lacks the advertiser.
Wit_C7_AcceptedAndRejected ==
    /\ PassRan /\ ~LastPass.result.thrown
    /\ LastPass.cfg.minConfidence = 50
    /\ LastPass.cfg.validators = RequireAdvertiser
    /\ Len(LastPass.result.candidates) > 0
    /\ LET found == findAdContainers(LastPass.cfg, doc)
       IN \E k \in 1..Len(found) :
              /\ found[k].container \notin LastPass.seenBefore
              /\ ValidationOf(LastPass.cfg, found[k]).confidence[1] = 0
              /\ ~CandidateFor(LastPass, found[k].container)

\* C9 as stated: a pass under a RuleSet that validateConfig accepts never throws.
Orig_C9_ValidConfigNeverThrows ==
    \A k \in 1..Len(passLog) :
        validateConfig(passLog[k].cfg).valid => ~passLog[k].result.thrown

----------------------------------------------------------------------------
(* Properties of field extraction (extractFields)                          *)

ExtractRan == extraction.container # 0

\* The positions in the declared list of the rules for a field.
RulesFor(field) ==
    {i \in 1..Len(extraction.rules) : extraction.rules[i].field = field}

\* What a rule produces on the container of the extraction.
OutcomeOf(i) ==
    RuleOutcome(doc, extraction.container, extraction.rules[i].field, extraction.rules[i],
                extraction.labelElement)

\* The rule before which no rule for the field produces a value: the highest
\* score, and the earliest declaration among equal scores.
IsBestYielding(i, field) ==
    /\ i \in RulesFor(field)
    /\ OutcomeOf(i).ok
    /\ \A j \in RulesFor(field) :
           OutcomeOf(j).ok =>
               \/ extraction.rules[j].score < extraction.rules[i].score
               \/ extraction.rules[j].score = extraction.rules[i].score /\ i <= j

ExtractionOf(field) ==
    {k \in 1..Len(extraction.extractions) : extraction.extractions[k].field = field}

\* C3: each field gets the value of the highest-scoring rule that produces a
\* value on the container, the earlier-declared rule among equal scores, in
\* whatever order the rules are declared; the rules consulted for the field
\* are exactly those of a higher score and those of the same score declared
\* up to the winner; a field none of whose rules produces a value stays empty.
Thm_C3_FallbackOrdering ==
    ExtractRan => \A field \in AdFields :
        IF \E i \in RulesFor(field) : OutcomeOf(i).ok
        THEN \A i \in RulesFor(field) :
                 IsBestYielding(i, field) =>
                     /\ extraction.fields[FieldKeyOf(field)] = OutcomeOf(i).value
                     /\ \E k \in ExtractionOf(field) :
                            /\ extraction.extractions[k].ruleId = extraction.rules[i].id
                            /\ extraction.extractions[k].score = extraction.rules[i].score
                            /\ extraction.extractions[k].consulted =
                                   Cardinality({j \in RulesFor(field) :
                                       \/ extraction.rules[j].score > extraction.rules[i].score
                                       \/ /\ extraction.rules[j].score = extraction.rules[i].score
                                          /\ j <= i})
        ELSE /\ extraction.fields[FieldKeyOf(field)] = <<>>
             /\ ExtractionOf(field) = {}

\* Rules scored 0.6, 1.0, 0.8 in this order of declaration: the 1.0 selector
\* matches nothing, the other two produce different values, the 0.8 rule wins.
Wit_C3_SecondBestWins ==
    /\ ExtractRan
    /\ \E a, b, c \in RulesFor("advertiser") :
           /\ a < b /\ b < c
           /\ extraction.rules[a].score = 60 /\ OutcomeOf(a).ok
           /\ extraction.rules[b].score = 100 /\ ~OutcomeOf(b).ok
           /\ extraction.rules[c].score = 80 /\ OutcomeOf(c).ok
           /\ OutcomeOf(a).value # OutcomeOf(c).value
           /\ extraction.fields["advertiser"] = OutcomeOf(c).value

RECURSIVE Depth(_)
\* Steps from a node up to the top of the document.
Depth(n) == IF doc[n].parent = 0 THEN 0 ELSE 1 + Depth(doc[n].parent)

\* Steps from each of two nodes up to their lowest common ancestor, summed.
TreeDistance(a, b) ==
    LET common == {n \in Nodes(doc) : IsAncestorOrSelf(doc, n, a) /\ IsAncestorOrSelf(doc, n, b)}
        lca == CHOOSE n \in common : \A m \in common : Depth(m) <= Depth(n)
    IN (Depth(a) - Depth(lca)) + (Depth(b) - Depth(lca))

\* C5: with a label element, when the selector of the rule that gave advertiser
\* or advertiserHandle matches several elements in the container, the value is
\* read from a match at the smallest tree distance to the label element.
Thm_C5_NearestToLabel ==
    (ExtractRan /\ extraction.labelElement # 0) =>
        \A k \in 1..Len(extraction.extractions) :
            LET e == extraction.extractions[k]
                matching == {n \in Subtree(doc, extraction.container) \ {extraction.container} :
                                Matches(doc, n, e.selector)}
            IN (e.field \in ContextFields /\ Cardinality(matching) >= 2) =>
                   /\ e.element \in matching
                   /\ \A n \in matching :
                          TreeDistance(extraction.labelElement, e.element)
                              <= TreeDistance(extraction.labelElement, n)

\* The advertiser is read from a sibling of the label element although a match
\* three steps away comes first in document order.
Wit_C5_SiblingChosen ==
    /\ ExtractRan /\ extraction.labelElement # 0
    /\ \E k \in 1..Len(extraction.extractions) :
           LET e == extraction.extractions[k]
           IN /\ e.field = "advertiser"
              /\ doc[e.element].parent = doc[extraction.labelElement].parent
              /\ \E n \in Subtree(doc, extraction.container) :
                     /\ n < e.element
                     /\ Matches(doc, n, e.selector)
                     /\ TreeDistance(extraction.labelElement, n) = 3
                     /\ TextContent(doc, n) # TextContent(doc, e.element)

----------------------------------------------------------------------------
(* Properties of config validation (validateConfig)                        *)

VerdictGiven == verdict # NoVerdict

\* Some rule of the RuleSet has an unparseable selector in a selector field.
HasUnparseableField(cfg) ==
    \/ \E i \in 1..Len(cfg.containerRules) : HasUnparseableSelector(cfg.containerRules[i])
    \/ \E i \in 1..Len(cfg.fieldRules) : ~ParsesAsSelector(cfg.fieldRules[i].selector)

HasWarning(message) ==
    \E k \in 1..Len(verdict.warnings) : verdict.warnings[k].message = message

\* C6 as stated: an unparseable selector in any selector field gives an error
\* and valid = false; a missing extractor for destinationUrl is reported as a
\* warning and not as an error.
Orig_C6_EverySelectorFieldChecked ==
    VerdictGiven =>
        /\ HasUnparseableField(config) => (~verdict.valid /\ Len(verdict.errors) >= 1)
        /\ (\A i \in 1..Len(config.fieldRules) :
                config.fieldRules[i].field # "destinationUrl")
              => /\ HasWarning(MissingExtractorWarning("destinationUrl"))
                 /\ \A k \in 1..Len(verdict.errors) :
                        verdict.errors[k].message # MissingExtractorWarning("destinationUrl")

----------------------------------------------------------------------------
(* Properties of the host (startDetection, the plugin's passes)            *)

\* C11: no detection pass runs on a RuleSet that has not passed validateConfig
\* with zero errors: once a pass has run, validateConfig has been run on the
\* loaded RuleSet and has found it valid.
Orig_C11_OnlyValidatedRuleSetsRun ==
    PassRan => /\ verdict = validateConfig(LastPass.cfg)
               /\ verdict.valid

----------------------------------------------------------------------------
(* Properties of the container threshold (findAdContainers)                *)

\* The matches of all rules after deduplication, before the threshold.
UniqueMatches == deduplicateContainers(RunContainerRules(doc, config.containerRules, 1))

AdaptiveUsed ==
    /\ FindRan
    /\ config.containerScoreThreshold = Undefined
    /\ config.adaptiveThreshold
    /\ UniqueMatches # <<>>

----------------------------------------------------------------------------
(* Properties of validation and scoring (validateAdCandidate)              *)

\* A validateAdCandidate call has returned.
ScoreReturned == scored.ran /\ ~scored.result.thrown

\* The score a validator awards: a skipped validator awards nothing.
Awarded(v) ==
    IF ValidatorSkipped(v) THEN <<0, 1>> ELSE RunValidator(v, scored.fields).score

RECURSIVE AwardedSum(_)
AwardedSum(i) ==
    IF i > Len(scored.validators) THEN <<0, 1>>
    ELSE RAdd(Awarded(scored.validators[i]), AwardedSum(i + 1))

ValidatorReasons ==
    IF scored.result.valid THEN scored.result.reasons ELSE Tail(scored.result.reasons)

\* C17: validateAdCandidate records a reason for every configured validator:
\* apart from one leading below-threshold message when the candidate is not
\* valid, the reasons list has exactly one entry per validator, in validator
\* order, for validators that pass, that fail and that cannot be evaluated.
Orig_C17_ReasonPerValidator ==
    ScoreReturned =>
        /\ ~scored.result.valid =>
              /\ scored.result.reasons # <<>>
              /\ scored.result.reasons[1] = "Confidence below threshold"
        /\ Len(ValidatorReasons) = Len(scored.validators)
        /\ \A i \in 1..Len(scored.validators) :
              ~ValidatorSkipped(scored.validators[i]) =>
                  ValidatorReasons[i] = RunValidator(scored.validators[i], scored.fields).message

----------------------------------------------------------------------------
(* Properties of label-led detection (findContainersByLabel)               *)

\* The text-bearing elements whose text holds a label of the rule as a whole
\* word.
LabelNodes(rule) ==
    {e \in Descendants(doc, 1) :
        /\ doc[e].tag \in TextTags
        /\ \E w \in Range(TextContent(doc, e)), l \in Range(rule.labelTexts) : WordMatch(w, l)}

\* The matched node of a container: the first element in document order whose
\* walk up ends at the container.
MatchedNode(rule, container) ==
    SetMin({e \in LabelNodes(rule) :
               findContainerFromLabel(doc, e, rule.containerSelector, LabelMaxDepth).value
                   = container})

\* How far below the element its nearest whole-word occurrence of the label is.
LabelDepthBelow(e, rule) ==
    SetMin({Depth(n) - Depth(e) : n \in {x \in Subtree(doc, e) :
               \E w \in Range(doc[x].text), l \in Range(rule.labelTexts) : WordMatch(w, l)}})

\* The confidence of a label at a depth, in hundredths.
LabelTier(depth) ==
    IF depth = 0 THEN 100 ELSE IF depth <= 2 THEN 90 ELSE IF depth <= 4 THEN 80 ELSE 70

\* C15: every match of label-led text detection has score = rule.score x
\* labelConfidence, where labelConfidence is 1.0 when the label is direct text
\* of the matched node, 0.9 when it is nested at depth <= 2, 0.8 at depth <= 4
\* and 0.7 when deeper.
Orig_C15_ScoreFollowsLabelDepth ==
    FindRan =>
        \A j \in 1..Len(LastFound), i \in RuleIndices :
            (/\ LastFound[j].ruleType = "label-led"
             /\ LastFound[j].labelElement # 0
             /\ LastFound[j].ruleId = RuleAt(i).id)
            => LET tier == LabelTier(LabelDepthBelow(
                               MatchedNode(RuleAt(i), LastFound[j].container), RuleAt(i)))
               IN /\ LastFound[j].labelConfidence = tier
                  /\ LastFound[j].score = RuleAt(i).score * tier

----------------------------------------------------------------------------
(* Properties of context-aware extraction (extractField, findNearestMatch) *)

\* What a rule of the extraction produces when it is run without a label
\* element: from the first element in document order matching its selector.
PlainOutcomeOf(i) ==
    RuleOutcome(doc, extraction.container, extraction.rules[i].field, extraction.rules[i], 0)

\* C16: with a label element, a rule for advertiser or advertiserHandle whose
\* nearest-to-label candidate yields no non-empty value falls back to its
\* plain first match; so every such rule that produces a value without label
\* context produces a value with it.
Orig_C16_FallsBackToFirstMatch ==
    (ExtractRan /\ extraction.labelElement # 0) =>
        \A i \in 1..Len(extraction.rules) :
            (extraction.rules[i].field \in ContextFields /\ PlainOutcomeOf(i).ok)
                => OutcomeOf(i).ok

----------------------------------------------------------------------------
(* Properties of passes that share one seen set                            *)

\* C18: over the passes of one host, which share one seen set, each container
\* is returned as a candidate at most once: a pass returns no container twice
\* and none that an earlier pass returned; a pass over the tree as the pass
\* before left it returns no candidate.
Thm_C18_ReturnedAtMostOnce ==
    [][passes' = passes + 1 =>
          /\ \A j, k \in 1..Len(passLog'[Len(passLog')].result.candidates) :
                 passLog'[Len(passLog')].result.candidates[j].container
                     = passLog'[Len(passLog')].result.candidates[k].container => j = k
          /\ Containers(passLog'[Len(passLog')].result.candidates) \cap host.returned = {}
          /\ (host.started /\ host.scanned = doc)
                 => passLog'[Len(passLog')].result.candidates = <<>>]_vars

\* Two passes of one host that both returned candidates: the second pass ran
\* with the containers of the first in its seen set and returned a new one.
Wit_C18_SecondPassReturnsNewContainer ==
    /\ host.started /\ Len(passLog) = 2
    /\ passLog[1].result.candidates # <<>>
    /\ passLog[2].result.candidates # <<>>
    /\ Containers(passLog[1].result.candidates) \subseteq passLog[2].seenBefore

----------------------------------------------------------------------------
(* Properties of the throttle of the host (throttledDetect)                *)

\* At most one detection timer is pending, and it is the one the plugin holds.
OneTimerPending ==
    /\ Cardinality(host.timers) <= 1
    /\ host.timers = IF host.detectTimeout # 0 THEN {host.detectTimeout} ELSE {}

\* A notification that arrives while a timer is pending starts no timer and no
\* pass.
NotificationWhilePending ==
    (host'.notified = host.notified + 1 /\ host.timers # {})
        => (host'.timers = host.timers /\ passes' = passes)

\* C19: the host collapses a burst of notifications into one pass: at most one
\* detection timer is pending at any time, a notification that arrives while a
\* timer is pending starts no additional pass, and every notification is
\* followed by a pass that begins after it unless the plugin is torn down.
Thm_C19_BurstsCollapse ==
    /\ []OneTimerPending
    /\ [][NotificationWhilePending]_vars
    /\ (host.owed /\ host.observer) ~> (~host.owed \/ ~host.observer)

\* Two notifications were delivered, one timer was started and is pending.
Wit_C19_TwoNotificationsOneTimer ==
    /\ host.notified = 2
    /\ host.nextTimer = 2
    /\ host.timers = {1}
    /\ host.owed

----------------------------------------------------------------------------
(* Properties of the metrics collector                                     *)

\* C20: after any sequence of recordContainerMatch and recordFieldMatch calls,
\* every tracked rule has timesMatched equal to the number of record calls made
\* for its id, averageConfidence equal to the arithmetic mean of the samples
\* recorded for it, timesValidated <= timesMatched, and successRate =
\* timesValidated / timesMatched.
Orig_C20_MetricsFollowCalls ==
    collector.constructed =>
        \A id \in DOMAIN metrics :
            /\ metrics[id].timesMatched = collector.calls[id].n
            /\ metrics[id].averageConfidence =
                   Norm(<<collector.calls[id].sum[1],
                          collector.calls[id].sum[2] * collector.calls[id].n>>)
            /\ metrics[id].timesValidated <= metrics[id].timesMatched
            /\ metrics[id].successRate =
                   Norm(<<metrics[id].timesValidated, metrics[id].timesMatched>>)
----------------------------------------------------------------------------
(* Properties of the adaptive threshold (calculateDynamicThreshold)        *)

\* The highest score among the deduplicated matches.
MaxScore ==
    CHOOSE s \in {UniqueMatches[k].score : k \in 1..Len(UniqueMatches)} :
        \A k \in 1..Len(UniqueMatches) : UniqueMatches[k].score <= s

\* The average of the deduplicated matches is below 0.7 x 0.8 x the highest.
AverageFarBelowMax ==
    RLess(<<SumScores(UniqueMatches), Len(UniqueMatches)>>, <<MaxScore * 56, 100>>)

\* C26: the adaptive threshold never exceeds max(0.8 x maxScore,
\* minConfidence); so when the highest-scoring deduplicated match has a score
\* of at least minConfidence, it passes and findAdContainers returns it.
Thm_C26_AdaptiveNeverAboveMax ==
    AdaptiveUsed =>
        /\ RLeq(calculateDynamicThreshold(UniqueMatches, config),
                RMax(<<MaxScore * 8, 10>>, <<config.minConfidence * 100, 1>>))
        /\ MaxScore >= config.minConfidence * 100 =>
               \E j \in 1..Len(LastFound) : LastFound[j].score = MaxScore

\* The average-based branch is taken, and the highest-scoring match passes a
\* threshold that some other match fails.
Wit_C26_AverageBranchTaken ==
    /\ AdaptiveUsed
    /\ AverageFarBelowMax
    /\ MaxScore >= config.minConfidence * 100
    /\ Len(LastFound) >= 1
    /\ Len(LastFound) < Len(UniqueMatches)

----------------------------------------------------------------------------
(* Properties of label elements that share a container                     *)

\* The confidence findLabelElements gives a label element, in hundredths.
ConfidenceOf(e, rule) ==
    LabelResult(doc, e, rule.labelTexts[FirstLabelIndex(doc, e, rule.labelTexts)]).confidence

\* The label elements of the rule whose walk up ends at the container.
LabelNodesOf(rule, container) ==
    {e \in LabelNodes(rule) :
        findContainerFromLabel(doc, e, rule.containerSelector, LabelMaxDepth).value = container}

\* C25: when several label elements found by one label-led rule resolve to the
\* same container, the match reported for the container carries the highest
\* labelConfidence among them; a container holding an element whose direct text
\* is the label is scored rule.score x 1.0.
Orig_C25_BestLabelWins ==
    FindRan =>
        \A j \in 1..Len(LastFound), i \in RuleIndices :
            (/\ LastFound[j].ruleType = "label-led"
             /\ LastFound[j].labelElement # 0
             /\ LastFound[j].ruleId = RuleAt(i).id)
            => \A e \in LabelNodesOf(RuleAt(i), LastFound[j].container) :
                   /\ ConfidenceOf(e, RuleAt(i)) <= LastFound[j].labelConfidence
                   /\ LastFound[j].score >= RuleAt(i).score * ConfidenceOf(e, RuleAt(i))

\* C27: no metric update is lost to the asynchronous load: once the load of a
\* collector has completed, timesMatched of each rule is at least the number
\* of record calls made on this collector for the rule.
Orig_C27_NoUpdateLostToLoad ==
    (collector.constructed /\ ~collector.loading) =>
        \A id \in MetricRuleIds :
            collector.here[id] > 0 =>
                /\ id \in DOMAIN metrics
                /\ metrics[id].timesMatched >= collector.here[id]

----------------------------------------------------------------------------
(* Properties of teardown                                                  *)

\* teardown() has returned and init() was not called again.
TornDown == host.started /\ ~host.activePlugin

\* C30: after teardown() returns no detection pass runs and no candidate is
\* sent, whether a throttled timer was pending at teardown or the page changes
\* afterwards.
Thm_C30_NoPassAfterTeardown ==
    [][TornDown => /\ passes' = passes
                   /\ passLog' = passLog
                   /\ seen' = seen
                   /\ host'.returned = host.returned]_vars

\* A timer was pending at teardown and was cleared (its notification is still
\* owed a pass), and the page changed once more after teardown: both changes
\* came after the only pass and one of them was notified.
Wit_C30_TimerClearedThenMutation ==
    /\ TornDown
    /\ host.owed /\ host.nextTimer = 2 /\ host.timers = {}
    /\ passes = 1
    /\ Len(doc) = Len(host.scanned) + 2
    /\ host.notified = 1

----------------------------------------------------------------------------
(* Properties of containers that failed validation                         *)

\* What a pass over the tree returns when nothing was seen before.
FreshPass == detectAds(config, {}, doc, metrics, clock)

\* C24: a container that failed validation in one pass is not suppressed
\* forever: a later pass with the same seen set, over a tree in which the
\* container passes validation, returns it.
Orig_C24_RejectedContainerReturnsLater ==
    [][(passes' = passes + 1 /\ host.started) =>
          \A n \in seen \ host.returned :
              (\E k \in 1..Len(FreshPass.candidates) : FreshPass.candidates[k].container = n)
                  => n \in Containers(passLog'[Len(passLog')].result.candidates)]_vars

----------------------------------------------------------------------------
(* Properties of detectAds and the metrics collector                       *)

\* What a collector holds when a pass starts: nothing (a new collector, or one
\* whose load is pending or whose storage fails), or metrics of earlier passes
\* for the rules of the RuleSet.
CollectorMetrics ==
    {<<>>,
     [id \in {"css-ad", "label", "adv"} |->
         [ruleType |-> IF id = "adv" THEN "field" ELSE "container",
          timesMatched |-> 2, timesValidated |-> 0, averageConfidence |-> <<1, 2>>,
          lastUsed |-> 0, successRate |-> <<0, 1>>]]}

\* The last pass again, with other metrics in the collector.
LastPassWith(m) == detectAds(LastPass.cfg, LastPass.seenBefore, doc, m, clock)

\* What a pass returned, the containers it visited, and whether it failed.
OutcomeOfPass(r) == <<r.candidates, r.seen, r.thrown>>

\* C22: for the same tree, RuleSet and seen set detectAds returns the same
\* candidates, visits the same containers and fails or not in the same way,
\* whatever the collector holds.
Thm_C22_MetricsDoNotInterfere ==
    PassRan =>
        \A m \in CollectorMetrics : OutcomeOfPass(LastPassWith(m)) = OutcomeOfPass(LastPass.result)

\* A pass that started with the metrics of an earlier pass returned candidates.
Wit_C22_PassWithPopulatedCollector ==
    /\ Len(passLog) = 2
    /\ passLog[1].result.metrics # <<>>
    /\ passLog[2].result.candidates # <<>>
    /\ passLog[2].result.metrics # passLog[1].result.metrics

----------------------------------------------------------------------------
(* Properties of the debug interface                                       *)

DebugReturned == debug.ran /\ ~debug.info.thrown

\* The fields the pipeline extracts from the node of the debug call.
PipelineFields == extractFields(doc, debug.container, config.fieldRules, 0).fields

\* The final values agree with extractFields.
FinalValuesAgree ==
    \A k \in 1..Len(debug.info.fieldAttempts) :
        debug.info.fieldAttempts[k].finalValue
            = PipelineFields[FieldKeyOf(debug.info.fieldAttempts[k].field)]

\* One entry per configured validator, with the validator's own outcome.
ValidationDetailsAgree ==
    (config.validatorsDefined /\ Len(config.validators) > 0) =>
        /\ Len(debug.info.validationDetails) = Len(config.validators)
        /\ \A i \in 1..Len(config.validators) :
               /\ debug.info.validationDetails[i].validator = config.validators[i].type
               /\ debug.info.validationDetails[i].weight = config.validators[i].weight
               /\ ~ValidatorSkipped(config.validators[i]) =>
                      /\ debug.info.validationDetails[i].passed
                             = RunValidator(config.validators[i], PipelineFields).passed
                      /\ debug.info.validationDetails[i].message
                             = RunValidator(config.validators[i], PipelineFields).message

\* C23: generateDebugInfo agrees with the pipeline: the finalValue of each
\* field is the value extractFields extracts for it from the node, and
\* validationDetails has one entry per configured validator with the type,
\* weight, passed flag and message of that validator in validateAdCandidate.
Orig_C23_DebugAgreesWithPipeline ==
    DebugReturned => (FinalValuesAgree /\ ValidationDetailsAgree)

----------------------------------------------------------------------------
(* Properties of the capacity of the collector                             *)

\* Entry a has lower usage than entry b, or comparable usage and no later use.
LowerUse(a, b) ==
    \/ b.timesMatched - a.timesMatched > 10
    \/ /\ a.timesMatched - b.timesMatched <= 10
       /\ a.lastUsed <= b.lastUsed

\* A record call was made at capacity.
RecordedAtCapacity == collector.unpruned # <<>> /\ collector.constructed

\* C21: when a record operation leaves more than the cap of entries tracked,
\* pruning brings the count back to the cap before the operation completes,
\* and every entry it discards has lower usage (or, at comparable usage, an
\* older last use) than every entry it keeps.
Orig_C21_PrunedToCap ==
    RecordedAtCapacity =>
        /\ Cardinality(DOMAIN metrics) <= maxStoredDetections
        /\ \A d \in DOMAIN collector.unpruned \ DOMAIN metrics, k \in DOMAIN metrics :
               LowerUse(collector.unpruned[d], metrics[k])

\* ---------------------------------------------------------------------------
\* The background service worker (background/index.ts): the message router,
\* its deduplication cache and the offscreen document.
\* ---------------------------------------------------------------------------

\* MAX_CACHE_SIZE, 500 in the source, scaled to the ids of the model.
MAX_CACHE_SIZE == 2
\* The handlers started in one run of the service worker.
MaxMessages == 4
\* The handlers that are waiting at one time.
MaxInFlight == 2
\* The ids normalizeCandidate hashes the payloads to.
RecordIds == {"a", "b", "c"}
\* The messages and events whose handlers only await ensureOffscreenDocument
\* and then send one message to the offscreen document.
PlainKinds == {"LIST_RECORDS", "alarm"}

\* A handler in flight: its position, the record id of its AD_CANDIDATE, the
\* TTL timer it armed and the timers that had fired when it accepted the id.
RouterTask(kind, id, pc) ==
    [kind |-> kind, id |-> id, pc |-> pc, timer |-> 0, firedAtAccept |-> {}]

\* The handlers that have not ended.
InFlight(r) ==
    {i \in DOMAIN r.tasks : r.tasks[i].pc \in {"normalize", "getContexts", "creating", "send"}}

\* recentAdIds.has(id)
CacheHas(cache, id) == \E i \in DOMAIN cache : cache[i] = id

\* recentAdIds.delete(id)
CacheDelete(cache, id) == SelectSeq(cache, LAMBDA x : x # id)

\* recentAdIds.add(id) followed by the eviction of the first id of the set
\* when the set has grown over MAX_CACHE_SIZE.
CacheAdd(cache, id) ==
    IF Len(Append(cache, id)) > MAX_CACHE_SIZE
    THEN Tail(Append(cache, id))
    ELSE Append(cache, id)

\* ensureOffscreenDocument up to its first await, called by handler i: it
\* returns at once when offscreenReady is set, otherwise it asks for the
\* offscreen contexts and waits.
ensureOffscreenDocument(r, i) ==
    IF r.offscreenReady
    THEN [r EXCEPT !.tasks[i].pc = "send"]
    ELSE [r EXCEPT !.tasks[i].pc = "getContexts"]

\* The service worker's script has run; the later version of the script ends
\* with a startup task that is waiting inside ensureOffscreenDocument.
InitRouter ==
    /\ doc = Fixture1
    /\ config \in {Config(TwoRules, BaseFieldRules, TRUE, RequireAdvertiser, Undefined, FALSE)}
    /\ seen = {}
    /\ metrics = <<>>
    /\ clock = 1
    /\ passes = 0
    /\ findLog = <<>>
    /\ passLog = <<>>
    /\ extraction = NoExtraction
    /\ verdict = NoVerdict
    /\ scored = NoValidation
    /\ collector = NoCollector
    /\ host = NoHost
    /\ debug = NoDebug
    /\ router \in {[NoRouter EXCEPT !.started = TRUE],
                   [NoRouter EXCEPT !.started = TRUE,
                                    !.tasks = <<RouterTask("startup", "", "getContexts")>>]}

\* A message or an alarm arrives: its handler runs up to its first await,
\* normalizeCandidate for an AD_CANDIDATE, ensureOffscreenDocument otherwise.
MessageArrives(kind, id) ==
    /\ router.started
    /\ Len(router.tasks) < MaxMessages
    /\ Cardinality(InFlight(router)) < MaxInFlight
    /\ router' = IF kind = "AD_CANDIDATE"
                 THEN [router EXCEPT !.tasks = Append(@, RouterTask(kind, id, "normalize"))]
                 ELSE ensureOffscreenDocument(
                          [router EXCEPT !.tasks = Append(@, RouterTask(kind, "", "ensure"))],
                          Len(router.tasks) + 1)
    /\ UNCHANGED <<doc, config, seen, metrics, clock, passes, findLog, passLog, extraction,
                   verdict, scored, collector, host, debug>>

\* The AD_CANDIDATE handler after normalizeCandidate: a cached id is skipped;
\* a new id is cached, the first id is evicted when the cache is over its
\* size, the TTL timer is armed and ensureOffscreenDocument is called.
Accepted(r, i) ==
    ensureOffscreenDocument(
        [r EXCEPT !.recentAdIds = CacheAdd(@, r.tasks[i].id),
                  !.timers = @ \cup {[n |-> r.nextTimer, id |-> r.tasks[i].id]},
                  !.nextTimer = @ + 1,
                  !.tasks[i].timer = r.nextTimer,
                  !.tasks[i].firedAtAccept = r.fired],
        i)

Normalized(i) ==
    /\ i \in DOMAIN router.tasks
    /\ router.tasks[i].pc = "normalize"
    /\ router' = IF CacheHas(router.recentAdIds, router.tasks[i].id)
                 THEN [router EXCEPT !.tasks[i].pc = "skipped"]
                 ELSE Accepted(router, i)
    /\ UNCHANGED <<doc, config, seen, metrics, clock, passes, findLog, passLog, extraction,
                   verdict, scored, collector, host, debug>>

\* chrome.runtime.getContexts resolves for handler i: with no offscreen
\* context it calls chrome.offscreen.createDocument and waits, otherwise it
\* sets offscreenReady and returns.
ContextsResolved(i) ==
    /\ i \in DOMAIN router.tasks
    /\ router.tasks[i].pc = "getContexts"
    /\ router' = IF ~router.document
                 THEN [router EXCEPT !.created = @ + 1, !.tasks[i].pc = "creating"]
                 ELSE [router EXCEPT !.offscreenReady = TRUE, !.tasks[i].pc = "send"]
    /\ UNCHANGED <<doc, config, seen, metrics, clock, passes, findLog, passLog, extraction,
                   verdict, scored, collector, host, debug>>

\* chrome.offscreen.createDocument settles for handler i: the document is
\* created and offscreenReady is set, or, the browser allowing one offscreen
\* document, the call is rejected and the handler ends with it.
CreateSettled(i) ==
    /\ i \in DOMAIN router.tasks
    /\ router.tasks[i].pc = "creating"
    /\ router' = IF router.document
                 THEN [router EXCEPT !.tasks[i].pc = "rejected"]
                 ELSE [router EXCEPT !.document = TRUE, !.offscreenReady = TRUE,
                                     !.tasks[i].pc = "send"]
    /\ UNCHANGED <<doc, config, seen, metrics, clock, passes, findLog, passLog, extraction,
                   verdict, scored, collector, host, debug>>

\* Handler i sends its message to the offscreen document: DB_SAVE with the
\* record for an AD_CANDIDATE.
Forwarded(i) ==
    /\ i \in DOMAIN router.tasks
    /\ router.tasks[i].pc = "send"
    /\ router' = IF router.tasks[i].kind = "AD_CANDIDATE"
                 THEN [router EXCEPT !.saved = Append(@, router.tasks[i]),
                                     !.tasks[i] = RouterTask("AD_CANDIDATE", @.id, "done")]
                 ELSE [router EXCEPT !.tasks[i].pc = "done"]
    /\ UNCHANGED <<doc, config, seen, metrics, clock, passes, findLog, passLog, extraction,
                   verdict, scored, collector, host, debug>>

\* A TTL timer fires: setTimeout(() => recentAdIds.delete(record.id), CACHE_TTL)
TtlFires(t) ==
    /\ t \in router.timers
    /\ router' = [router EXCEPT !.recentAdIds = CacheDelete(@, t.id),
                                !.timers = @ \ {t},
                                !.fired = @ \cup {t.n}]
    /\ UNCHANGED <<doc, config, seen, metrics, clock, passes, findLog, passLog, extraction,
                   verdict, scored, collector, host, debug>>

NextRouter ==
    \/ \E id \in RecordIds : MessageArrives("AD_CANDIDATE", id)
    \/ \E kind \in PlainKinds : MessageArrives(kind, "")
    \/ \E i \in 1..MaxMessages : Normalized(i)
    \/ \E i \in 1..MaxMessages : ContextsResolved(i)
    \/ \E i \in 1..MaxMessages : CreateSettled(i)
    \/ \E i \in 1..MaxMessages : Forwarded(i)
    \/ \E t \in router.timers : TtlFires(t)

SpecRouter == InitRouter /\ [][NextRouter]_vars

\* ---------------------------------------------------------------------------
\* C28  The router sends DB_SAVE for two AD_CANDIDATE messages with the same
\* record id only when the TTL timer armed at the acceptance of the earlier
\* one had fired before the later one was accepted, whatever the order of
\* arrivals, evictions and timer firings.
\* ---------------------------------------------------------------------------
Orig_C28_NoDuplicateSaveWithinTtl ==
    \A i, j \in DOMAIN router.saved :
        (/\ router.saved[i].id = router.saved[j].id
         /\ router.saved[i].timer < router.saved[j].timer)
            => router.saved[i].timer \in router.saved[j].firedAtAccept

\* ---------------------------------------------------------------------------
\* C29  chrome.offscreen.createDocument is called at most once while no
\* offscreen document has been closed (the service worker closes none),
\* whatever the order in which the waiting handlers are resumed.
\* ---------------------------------------------------------------------------
Orig_C29_CreateDocumentAtMostOnce == router.created <= 1

====
